---- MODULE Spec2Model ----
(***************************************************************************)
(* Session / feedback state machine of cringe-alert-v2 and its two         *)
(* streaming protocols: the one-shot analysis and fix-evaluation streams,  *)
(* the coach tool-call channel (ChatClient + CoachPanel) and the           *)
(* reconnecting WebSocketManager.                                          *)
(***************************************************************************)
EXTENDS Integers, Sequences, FiniteSets, TLC

VARIABLES
    \* ---- useSessionStore
    sessionId,              \* 0 for null
    originalVideo,          \* SessionVideo, Absent for null
    practiceClips,          \* sequence of clip URLs
    finalVideo,
    activeVideoType,
    currentVideoUrl,        \* 0 for null
    selectedPracticeClipId, \* 0 for null, else the clip's position
    isRecorderOpen,
    recorderType,           \* "practice" | "final" | "null"
    feedbackAddressed,
    \* ---- useAnalysisStore
    isAnalyzing,
    analysisStatus,
    thinkingContent,        \* sequence of the streams whose text was appended
    currentAnalysis,        \* AnalysisResult, NoAnalysis for null
    highlightedFeedbackIndex,
    fixModalOpen,
    fixModalFeedbackIndex,
    fixEvaluating,
    fixResult,              \* "null" | "fixed" | "notfixed"
    \* ---- App component state and the requests it has in flight
    showComparison,
    upload,                 \* handleFileUpload awaiting: its videoType, or "none"
    uploadSessionId,        \* currentSessionId of that handleFileUpload, 0 when none
    streams,                \* runStreamingAnalysis calls, in start order
    createdSessions,        \* sessions createSession has handed out
    \* ---- FeedbackFixModal component state and its requests in flight
    fixIssuedIn,            \* history: the sessionId each fix request was
                            \* issued with, 0 once the request has ended
    phase,
    fixStreams,             \* handleRecordComplete calls, in start order
    statusCalls,            \* updateFeedbackItemStatus calls per index of the
                            \* current analysis result
    \* ---- WebSocketManager (services/WebSocketManager.ts)
    wsSockets,          \* every WebSocket the manager created, in creation order
    wsCurrent,          \* this.ws: index into wsSockets, 0 for null
    reconnectAttempts,  \* this.reconnectAttempts
    wsTimers,           \* pending setTimeout(() => this.connect(...)) callbacks
    connected,          \* useAppStore.connected
    wsConnectCalls,     \* explicit connect() calls made so far
    \* ---- CoachPanel and its ChatClient (services/LiveClient.ts)
    chatSockets,        \* the socket of every ChatClient created, in order
    clientRef,          \* clientRef.current: index into chatSockets, 0 for null
    coachConnected,     \* CoachPanel's isConnected
    messages,           \* the chat transcript
    countdown,          \* 0 for null
    countdownTimers,    \* running setInterval timers of startCountdown
    outbox,             \* frames sent to the coach service, not yet received
    framesReceived,     \* onmessage events delivered to ChatClients so far
    playbackPos,        \* currentTime of the video element
    prevAnalysisRef,    \* prevAnalysisRef.current is a result (not null)
    contextLog,         \* history of the current ChatClient: whether a result
                        \* was available when it was created (due) and the
                        \* context frames it handed to its socket (sent)
    clientSessionId,    \* history: session_id in the URL of the newest ChatClient's
                        \* socket, 0 when the URL carries none
    lastFrame,          \* history: what the chat last saw, the type of an
                        \* inbound frame, "user" for a message the user
                        \* sent, "none" on a new channel
    countdownLog,       \* history of the countdown intervals: queue holds
                        \* the ticks each pending interval has had, in the
                        \* order in which they fire next; opened the ticks
                        \* the interval that last called onComplete had had
    connectLog,         \* history of the coach channels: clicks counts the
                        \* presses of the Connect button, live[k] is the
                        \* isConnected field of ChatClient k
    loads,              \* handleLoadSession calls awaiting fetchFullSession:
                        \* pending the session ids asked for, selected the
                        \* id of the latest call, ok whether that call has
                        \* applied its response
    sse,                \* one analyzeVideoStream call: body the characters
                        \* of the response, pos how many the reader has
                        \* handed over, buffer, yielded the events given to
                        \* the caller, done; records and midBlank are history
    initPc,             \* where the mount effect's init() stands
    initCreate          \* history: outcome of the last createSession call
                        \* made by init(), "none" when it made none

slotVars == <<sessionId, originalVideo, practiceClips, finalVideo>>

viewVars == <<activeVideoType, currentVideoUrl, selectedPracticeClipId>>

recorderVars == <<isRecorderOpen, recorderType>>

sessionVars == <<slotVars, viewVars, recorderVars, feedbackAddressed>>

progressVars == <<isAnalyzing, analysisStatus, thinkingContent>>

fixModalVars == <<fixModalOpen, fixModalFeedbackIndex, fixEvaluating, fixResult>>

analysisVars == <<progressVars, currentAnalysis, highlightedFeedbackIndex,
                 fixModalVars, statusCalls>>

appVars == <<showComparison, upload, uploadSessionId, streams, createdSessions>>

modalVars == <<phase, fixStreams, fixIssuedIn>>

wsVars == <<wsSockets, wsCurrent, reconnectAttempts, wsTimers, connected,
           wsConnectCalls>>

coachVars == <<chatSockets, clientRef, coachConnected, messages, countdown,
              countdownTimers, outbox, framesReceived, playbackPos,
              prevAnalysisRef, contextLog, clientSessionId, lastFrame,
              countdownLog, connectLog>>

bootVars == <<initPc, initCreate>>

vars == <<sessionVars, analysisVars, appVars, modalVars, wsVars, coachVars,
          bootVars, sse, loads>>

\* What the handlers of one part of the application do not reach.
ingestRest == <<modalVars, wsVars, coachVars, bootVars, sse, loads>>

fixRest == <<wsVars, coachVars, bootVars, sse, loads>>

wsRest == <<sessionVars, analysisVars, appVars, modalVars, coachVars,
           bootVars, sse, loads>>

\* What the handlers of the coach channel never touch.
toolQuiet == <<wsVars, bootVars, sse, loads, prevAnalysisRef, contextLog,
              clientSessionId,
              lastFrame>>

\* The histories only the specifications made for them keep.
coachLog == <<countdownLog, connectLog>>

toolRest == <<toolQuiet, coachLog>>

-----------------------------------------------------------------------------
(* Bounds of the model *)

\* runStreamingAnalysis calls in one run, and thinking chunks appended to one
\* transcript
MaxStreams == 1

\* runStreamingAnalysis calls in one run of back-to-back uploads and recordings
MaxOverlap == 2

\* sessions created through createSession in one run
MaxNewSessions == 1

\* handleRecordComplete calls (fix evaluations) in one run
MaxFixStreams == 2

\* updateFeedbackItemStatus calls naming one index of one analysis result
MaxAttempts == 2

\* sockets the WebSocketManager may create in one run
MaxSockets == 8

\* explicit connect() calls the application may make in one run
MaxConnectCalls == 2

\* ChatClients the coach panel may create in one run
MaxClients == 1

\* ChatClients the coach panel may create in a run with reconnections
MaxChannels == 2

\* presses of the Connect button in one run
MaxClicks == 3

\* lines of the chat transcript in a run with reconnections
MaxTranscript == 3

\* countdown intervals alive at once where the countdown is examined
MaxIntervals == 2

\* lines of the chat transcript
MaxMessages == 2

\* frames sent to the coach service and not yet received by it
MaxOutbox == 1

\* countdowns running at the same time
MaxTimers == 1

\* frames the coach service sends in one run
MaxFrames == 2

\* onmessage events in one conversation
MaxChatFrames == 3

-----------------------------------------------------------------------------
(* Values *)

\* score: undefined
NoScore == -1

VideoTypes == {"original", "practice", "final"}

\* SessionVideo | null
Absent ==
    [present |-> FALSE, url |-> 0, blobName |-> 0, score |-> NoScore,
     thoughtSignature |-> 0]

\* { url, blobName, createdAt }: score and thoughtSignature undefined
NewVideo(url, blobName) ==
    [present |-> TRUE, url |-> url, blobName |-> blobName, score |-> NoScore,
     thoughtSignature |-> 0]

\* A freshly produced FeedbackItem: status, fix_feedback, fix_attempts unset.
Item(t) ==
    [title |-> t, status |-> "unfixed", fix_feedback |-> "none",
     fix_attempts |-> 0]

\* AnalysisResult | null
NoAnalysis ==
    [present |-> FALSE, overall_score |-> 0, feedback_items |-> << >>,
     thought_signature |-> 0]

\* An AnalysisResult with n feedback items; thought_signature 0 is null.
Result(score, n, sig) ==
    [present |-> TRUE, overall_score |-> score,
     feedback_items |-> [i \in 1..n |-> Item(i)], thought_signature |-> sig]

\* Terminal payloads the analysis service may send in a complete event.
Payloads == {Result(0, 1, 0), Result(70, 2, 1)}

\* A JavaScript value that arrives where a number is expected.
JsAbsent == [k |-> "absent", v |-> 0]

JsNum(n) == [k |-> "num", v |-> n]

JsStr == [k |-> "str", v |-> 0]

JsNaN == [k |-> "nan", v |-> 0]

JsInf == [k |-> "inf", v |-> 0]

\* the store's null
JsNull == [k |-> "null", v |-> 0]

\* A request that has ended: its locals are gone.
ClosedStream ==
    [sid |-> 0, type |-> "original", state |-> "closed", hadResult |-> FALSE]

\* Sessions the session store holds (fetchFullSession results).
VideoData(url, score, n, sig) ==
    [present |-> TRUE, url |-> url, blob_name |-> url, score |-> score,
     n |-> n, thought_signature |-> sig]

NoVideoData ==
    [present |-> FALSE, url |-> 0, blob_name |-> 0, score |-> NoScore,
     n |-> 0, thought_signature |-> 0]

FullSessions ==
    { [session_id |-> 1, original_video |-> VideoData(5, 70, 2, 1),
       practice_clips |-> << >>, final_video |-> NoVideoData],
      [session_id |-> 2, original_video |-> VideoData(6, 0, 1, 0),
       practice_clips |-> <<VideoData(7, 70, 1, 0)>>,
       final_video |-> VideoData(8, 70, 1, 1)] }

\* Longest practice_clips list of a hydrated session.
MaxClips == 2

\* A slot as the session service may return it: null, uploaded but not yet
\* analysed (score null), or analysed.
OriginalChoices ==
    {NoVideoData, VideoData(5, NoScore, 0, 0), VideoData(5, 60, 2, 1)}

FinalChoices ==
    {NoVideoData, VideoData(8, NoScore, 0, 0), VideoData(8, 0, 1, 1)}

ClipChoices ==
    {VideoData(7, NoScore, 0, 0), VideoData(7, 40, 1, 0), VideoData(9, 50, 1, 0)}

\* The FullSession values restoreAnalysisFromSession is applied to.
HydratedSessions ==
    { [session_id |-> id, original_video |-> o, practice_clips |-> c,
       final_video |-> f] :
        id \in {1, 2}, o \in OriginalChoices, f \in FinalChoices,
        c \in UNION { [1..n -> ClipChoices] : n \in 0..MaxClips } }

\* analysisStatus texts
ParseErrorStatus == "Analysis complete (parsing error)"

-----------------------------------------------------------------------------
(* useAnalysisStore and useSessionStore *)

InitSession ==
    /\ sessionId = 0
    /\ originalVideo = Absent
    /\ practiceClips = << >>
    /\ finalVideo = Absent
    /\ activeVideoType = "original"
    /\ currentVideoUrl = 0
    /\ selectedPracticeClipId = 0
    /\ isRecorderOpen = FALSE
    /\ recorderType = "null"

\* The progress counter the fix modal reads from the session store.
InitFeedbackAddressed == feedbackAddressed = 0

InitAnalysis ==
    /\ isAnalyzing = FALSE
    /\ analysisStatus = ""
    /\ thinkingContent = << >>
    /\ currentAnalysis = NoAnalysis
    /\ highlightedFeedbackIndex = JsNull
    /\ fixModalOpen = FALSE
    /\ fixModalFeedbackIndex = JsNull
    /\ fixEvaluating = FALSE
    /\ fixResult = "null"
    /\ statusCalls = << >>

\* No updateFeedbackItemStatus call has named an item of result r yet.
NoCalls(r) == [i \in 1..Len(r.feedback_items) |-> 0]

\* startAnalysis()
StartAnalysis ==
    /\ isAnalyzing' = TRUE
    /\ analysisStatus' = "Starting..."
    /\ thinkingContent' = << >>
    /\ currentAnalysis' = NoAnalysis
    /\ statusCalls' = << >>

\* reset(), followed by setAnalysisResult(restored) when restored is a result
ResetThenRestore(restored) ==
    /\ isAnalyzing' = FALSE
    /\ analysisStatus' = ""
    /\ thinkingContent' = << >>
    /\ currentAnalysis' = restored
    /\ statusCalls' = NoCalls(restored)
    /\ fixModalOpen' = FALSE
    /\ fixModalFeedbackIndex' = JsNull
    /\ fixEvaluating' = FALSE
    /\ fixResult' = "null"
    /\ UNCHANGED highlightedFeedbackIndex

\* updateOriginalAnalysis / updateFinalAnalysis: the slot with score and
\* thoughtSignature set, null when the slot is null.
UpdateAnalysis(video, score, sig) ==
    IF video.present
    THEN [video EXCEPT !.score = score, !.thoughtSignature = sig]
    ELSE Absent

\* determineVideoType(): a score of 0 is falsy.
\* A determineVideoType that takes an upload over an unscored original for a
\* practice take.
DetermineVideoTypePractice ==
    IF ~originalVideo.present THEN "original"
    ELSE IF originalVideo.score # NoScore /\ originalVideo.score # 0 THEN "final"
    ELSE "practice"

DetermineVideoType ==
    IF ~originalVideo.present THEN "original"
    ELSE IF originalVideo.score # NoScore /\ originalVideo.score # 0 THEN "final"
    ELSE "original"

\* loadFromBackend: a SessionVideo from the store's VideoAnalysisData.
FromBackend(d) ==
    IF d.present
    THEN [present |-> TRUE, url |-> d.url, blobName |-> d.blob_name,
          score |-> d.score, thoughtSignature |-> d.thought_signature]
    ELSE Absent

\* restoreAnalysisFromSession(data): the result handed to setAnalysisResult,
\* NoAnalysis when it sets none.
RestoredAnalysis(data) ==
    LET video == IF data.final_video.present THEN data.final_video
                 ELSE data.original_video
        clips == data.practice_clips
        lastPractice == IF Len(clips) > 0 THEN clips[Len(clips)] ELSE NoVideoData
        source == IF video.present /\ video.score # NoScore THEN video
                  ELSE lastPractice
    IN  IF source.present /\ source.score # NoScore
        THEN Result(source.score, source.n, source.thought_signature)
        ELSE NoAnalysis

\* The download URL (and blob name) of the next uploaded file: every upload
\* gets a name of its own, and every upload in this model starts an analysis.
FreshUrl == 10 + Len(streams)

\* createSession(): the id the session store hands out next.
FreshSessionId == Cardinality(FullSessions) + createdSessions + 1

-----------------------------------------------------------------------------
(* App: sessions, uploads, recordings and the streaming analysis *)

InitApp ==
    /\ showComparison = FALSE
    /\ upload = "none"
    /\ uploadSessionId = 0
    /\ streams = << >>
    /\ createdSessions = 0

\* handleNewSession, once createSession has resolved.
HandleNewSession ==
    /\ createdSessions < MaxNewSessions
    /\ createdSessions' = createdSessions + 1
    /\ sessionId' = FreshSessionId
    /\ originalVideo' = Absent
    /\ practiceClips' = << >>
    /\ finalVideo' = Absent
    /\ activeVideoType' = "original"
    /\ currentVideoUrl' = 0
    /\ selectedPracticeClipId' = 0
    /\ isRecorderOpen' = FALSE
    /\ ResetThenRestore(NoAnalysis)
    /\ showComparison' = FALSE
    /\ UNCHANGED <<recorderType, feedbackAddressed, upload, uploadSessionId, streams>>

\* loadFromBackend(data)
LoadFromBackend(data) ==
    /\ sessionId' = data.session_id
    /\ originalVideo' = FromBackend(data.original_video)
    /\ practiceClips' = [i \in 1..Len(data.practice_clips) |->
                            data.practice_clips[i].url]
    /\ finalVideo' = FromBackend(data.final_video)
    /\ activeVideoType' = IF data.final_video.present THEN "final" ELSE "original"
    /\ currentVideoUrl' = IF data.final_video.present THEN data.final_video.url
                          ELSE IF data.original_video.present
                               THEN data.original_video.url
                               ELSE 0
    /\ selectedPracticeClipId' = 0
    /\ isRecorderOpen' = FALSE

\* handleLoadSession, once fetchFullSession has resolved with data.
HandleLoadSession(data) ==
    /\ LoadFromBackend(data)
    /\ ResetThenRestore(RestoredAnalysis(data))
    /\ showComparison' = FALSE
    /\ UNCHANGED <<recorderType, feedbackAddressed, upload, uploadSessionId, streams,
                   createdSessions>>

\* runStreamingAnalysis(blobName, type) up to its first await: the session id
\* is read once, startAnalysis() runs, the request is issued.  hadResult is
\* history: whether a result was on display when the request started.
RunStreamingAnalysis(type) ==
    /\ StartAnalysis
    /\ streams' = Append(streams, [sid |-> sessionId, type |-> type,
                                   state |-> "open",
                                   hadResult |-> currentAnalysis.present])
    /\ UNCHANGED <<highlightedFeedbackIndex, fixModalVars>>

\* handleFileUpload up to the upload itself: a session is created when there
\* is none, the video type is decided.
UploadStart ==
    /\ upload = "none"
    /\ IF sessionId = 0
       THEN /\ createdSessions < MaxNewSessions
            /\ createdSessions' = createdSessions + 1
            /\ sessionId' = FreshSessionId
       ELSE UNCHANGED <<sessionId, createdSessions>>
    /\ upload' = DetermineVideoType
    /\ uploadSessionId' = sessionId'
    /\ UNCHANGED <<originalVideo, practiceClips, finalVideo, viewVars,
                   recorderVars, feedbackAddressed, analysisVars,
                   showComparison, streams>>

\* setVideoUrl(url), kept for backward compatibility: the URL becomes the
\* original when there is none, and only the URL on display otherwise.
SetVideoUrl(url) ==
    IF ~originalVideo.present
    THEN /\ originalVideo' = NewVideo(url, 0)
         /\ currentVideoUrl' = url
         /\ activeVideoType' = "original"
    ELSE /\ currentVideoUrl' = url
         /\ UNCHANGED <<originalVideo, activeVideoType>>

\* handleFileUpload after uploadFileToUrl resolved with url.
UploadDone ==
    LET url == FreshUrl IN
    /\ upload # "none"
    /\ upload' = "none"
    /\ uploadSessionId' = 0
    /\ CASE upload = "original" ->
               /\ originalVideo' = NewVideo(url, url)
               /\ activeVideoType' = "original"
               /\ currentVideoUrl' = url
               /\ UNCHANGED finalVideo
         [] upload = "final" ->
               /\ finalVideo' = NewVideo(url, url)
               /\ activeVideoType' = "final"
               /\ currentVideoUrl' = url
               /\ UNCHANGED originalVideo
         [] OTHER -> SetVideoUrl(url) /\ UNCHANGED finalVideo
    /\ RunStreamingAnalysis(upload)
    /\ UNCHANGED <<sessionId, practiceClips, selectedPracticeClipId,
                   recorderVars, feedbackAddressed, showComparison,
                   createdSessions>>

\* handleFileUpload when the signed-URL request or the upload throws.
UploadFail ==
    /\ upload # "none"
    /\ upload' = "none"
    /\ uploadSessionId' = 0
    /\ UNCHANGED <<sessionVars, analysisVars, showComparison, streams,
                   createdSessions>>

\* openRecorder(...), type defaulting to 'practice'
OpenRecorder(type) ==
    /\ isRecorderOpen' = TRUE
    /\ recorderType' = type
    /\ UNCHANGED <<slotVars, viewVars, feedbackAddressed>>

\* The record button: openRecorder()
ClickRecord ==
    /\ ~isRecorderOpen
    /\ OpenRecorder("practice")
    /\ UNCHANGED <<analysisVars, appVars>>

\* Recorder.onUploadComplete({downloadUrl, blobName})
RecorderUploadComplete ==
    LET url == FreshUrl IN
    /\ isRecorderOpen
    /\ IF recorderType = "practice"
       THEN /\ practiceClips' = Append(practiceClips, url)
            /\ activeVideoType' = "practice"
            /\ selectedPracticeClipId' = Len(practiceClips) + 1
            /\ RunStreamingAnalysis("practice")
            /\ UNCHANGED <<originalVideo, finalVideo>>
       ELSE IF recorderType = "final"
       THEN /\ finalVideo' = NewVideo(url, url)
            /\ activeVideoType' = "final"
            /\ RunStreamingAnalysis("final")
            /\ UNCHANGED <<originalVideo, practiceClips, selectedPracticeClipId>>
       ELSE /\ originalVideo' = NewVideo(url, url)
            /\ activeVideoType' = "original"
            /\ RunStreamingAnalysis("original")
            /\ UNCHANGED <<finalVideo, practiceClips, selectedPracticeClipId>>
    /\ currentVideoUrl' = url
    /\ isRecorderOpen' = FALSE
    /\ recorderType' = "null"
    /\ UNCHANGED <<sessionId, feedbackAddressed, showComparison, upload, uploadSessionId,
                   createdSessions>>

\* The chunks analyzeVideoStream may yield.  A complete chunk carries a
\* payload that is a result ("complete_ok"), is not JSON ("complete_bad") or
\* is the JSON literal null ("complete_null").
Chunk(kind, result) == [kind |-> kind, result |-> result]

Chunks ==
    {Chunk(kd, NoAnalysis) : kd \in {"status", "thinking", "analysis",
                                     "complete_bad", "complete_null", "error"}}
    \cup {Chunk("complete_ok", p) : p \in Payloads}

Terminal(chunk) ==
    chunk.kind \in {"complete_ok", "complete_bad", "complete_null", "error"}

\* A handler that treats an unparseable payload as an empty result.
OnCompleteBadClears(k, chunk) ==
    /\ isAnalyzing' = FALSE
    /\ currentAnalysis' = NoAnalysis
    /\ statusCalls' = << >>
    /\ analysisStatus' = ParseErrorStatus
    /\ UNCHANGED <<thinkingContent, slotVars, showComparison>>

\* case 'complete' with JSON.parse throwing: the catch block only.
OnCompleteBad(k, chunk) ==
    /\ analysisStatus' = ParseErrorStatus
    /\ UNCHANGED <<isAnalyzing, thinkingContent, currentAnalysis, statusCalls,
                   slotVars, showComparison>>

\* case 'complete' with a payload that parses to null: setAnalysisResult(null)
\* runs, then result.feedback_items throws and the catch block sets the status.
OnCompleteNull(k, chunk) ==
    /\ isAnalyzing' = FALSE
    /\ currentAnalysis' = NoAnalysis
    /\ statusCalls' = << >>
    /\ analysisStatus' = ParseErrorStatus
    /\ UNCHANGED <<thinkingContent, slotVars, showComparison>>

\* case 'complete' with a result: setAnalysisResult, then the slot update
\* chosen by the request's type.
OnCompleteOk(k, chunk) ==
    LET result == chunk.result
        sig == result.thought_signature
    IN  /\ isAnalyzing' = FALSE
        /\ currentAnalysis' = result
        /\ statusCalls' = NoCalls(result)
        /\ IF streams[k].type = "final"
           THEN /\ finalVideo' = UpdateAnalysis(finalVideo, result.overall_score, sig)
                /\ showComparison' = TRUE
                /\ UNCHANGED originalVideo
           ELSE /\ originalVideo' =
                       UpdateAnalysis(originalVideo, result.overall_score, sig)
                /\ UNCHANGED <<finalVideo, showComparison>>
        /\ UNCHANGED <<analysisStatus, thinkingContent, sessionId, practiceClips>>

\* The switch of runStreamingAnalysis on one chunk of request k.
ApplyChunk(k, chunk) ==
    CASE chunk.kind = "status" ->
            /\ analysisStatus' = "status"
            /\ UNCHANGED <<isAnalyzing, thinkingContent, currentAnalysis,
                           statusCalls, slotVars, showComparison>>
      [] chunk.kind = "thinking" ->
            /\ Len(thinkingContent) < MaxStreams
            /\ thinkingContent' = Append(thinkingContent, k)
            /\ UNCHANGED <<isAnalyzing, analysisStatus, currentAnalysis,
                           statusCalls, slotVars, showComparison>>
      [] chunk.kind = "analysis" ->
            UNCHANGED <<progressVars, currentAnalysis, statusCalls, slotVars,
                        showComparison>>
      [] chunk.kind = "complete_ok" -> OnCompleteOk(k, chunk)
      [] chunk.kind = "complete_bad" -> OnCompleteBad(k, chunk)
      [] chunk.kind = "complete_null" -> OnCompleteNull(k, chunk)
      [] chunk.kind = "error" ->
            /\ analysisStatus' = "Error"
            /\ UNCHANGED <<isAnalyzing, thinkingContent, currentAnalysis,
                           statusCalls, slotVars, showComparison>>

\* showComparison && finalVideo?.score: the condition under which App
\* renders FinalComparison.  A score of 0 is falsy.
ComparisonShown ==
    /\ showComparison
    /\ finalVideo.present
    /\ finalVideo.score # NoScore
    /\ finalVideo.score # 0

\* The for await loop of request k is running: the response body has not
\* ended.  "errored" is history: an error event was handled and the response
\* stayed open.
Running(k) == streams[k].state \in {"open", "errored"}

\* One iteration of the for await loop of request k.  The service ends the
\* response after its complete or error event, so the request's loop ends with
\* the terminal chunk.
StreamChunk(k, chunk) ==
    /\ Running(k)
    /\ streams' = IF Terminal(chunk) THEN [streams EXCEPT ![k] = ClosedStream]
                  ELSE streams
    /\ ApplyChunk(k, chunk)
    /\ UNCHANGED <<viewVars, recorderVars, feedbackAddressed,
                   highlightedFeedbackIndex, fixModalVars, upload, uploadSessionId,
                   createdSessions>>

\* An error event of a service that leaves the response open after it: case
\* 'error' runs, its break leaves the switch, and the loop awaits the next
\* chunk.
StreamErrorStaysOpen(k) ==
    /\ streams[k].state = "open"
    /\ streams' = [streams EXCEPT ![k].state = "errored"]
    /\ ApplyChunk(k, Chunk("error", NoAnalysis))
    /\ UNCHANGED <<viewVars, recorderVars, feedbackAddressed,
                   highlightedFeedbackIndex, fixModalVars, upload,
                   uploadSessionId, createdSessions>>

\* The response body ends without a terminal event: the loop is left, nothing
\* else runs.
StreamEnd(k) ==
    /\ Running(k)
    /\ streams' = [streams EXCEPT ![k] = ClosedStream]
    /\ UNCHANGED <<sessionVars, analysisVars, showComparison, upload, uploadSessionId,
                   createdSessions>>

\* fetch or reader.read() throws: the outer catch.
StreamThrow(k) ==
    /\ Running(k)
    /\ streams' = [streams EXCEPT ![k] = ClosedStream]
    /\ analysisStatus' = "Analysis failed"
    /\ UNCHANGED <<sessionVars, isAnalyzing, thinkingContent, currentAnalysis,
                   highlightedFeedbackIndex, fixModalVars, statusCalls,
                   showComparison, upload, uploadSessionId, createdSessions>>

\* No analysis request is streaming.
NoneRunning == \A k \in 1..Len(streams) : ~Running(k)

\* Ingestion with one request after the other: an upload or recording comes
\* in when no earlier request is streaming (NextOverlap has the requests that
\* overlap).
NextIngest ==
    \/ HandleNewSession /\ UNCHANGED ingestRest
    \/ \E data \in FullSessions : HandleLoadSession(data) /\ UNCHANGED ingestRest
    \/ UploadStart /\ UNCHANGED ingestRest
    \/ Len(streams) < MaxStreams /\ NoneRunning /\ UploadDone
          /\ UNCHANGED ingestRest
    \/ UploadFail /\ UNCHANGED ingestRest
    \/ ClickRecord /\ UNCHANGED ingestRest
    \/ Len(streams) < MaxStreams /\ NoneRunning /\ RecorderUploadComplete
          /\ UNCHANGED ingestRest
    \/ \E k \in 1..Len(streams), chunk \in Chunks :
          StreamChunk(k, chunk) /\ UNCHANGED ingestRest
    \/ \E k \in 1..Len(streams) : StreamEnd(k) /\ UNCHANGED ingestRest
    \/ \E k \in 1..Len(streams) : StreamThrow(k) /\ UNCHANGED ingestRest

\* Uploads and recordings that follow one another within one session, each
\* starting its analysis request while earlier requests may still be running.
NextOverlap ==
    \/ UploadStart /\ UNCHANGED ingestRest
    \/ Len(streams) < MaxOverlap /\ UploadDone /\ UNCHANGED ingestRest
    \/ UploadFail /\ UNCHANGED ingestRest
    \/ ClickRecord /\ UNCHANGED ingestRest
    \/ Len(streams) < MaxOverlap /\ RecorderUploadComplete
          /\ UNCHANGED ingestRest
    \/ \E k \in 1..Len(streams), chunk \in Chunks :
          StreamChunk(k, chunk) /\ UNCHANGED ingestRest
    \/ \E k \in 1..Len(streams) : StreamErrorStaysOpen(k) /\ UNCHANGED ingestRest
    \/ \E k \in 1..Len(streams) : StreamEnd(k) /\ UNCHANGED ingestRest
    \/ \E k \in 1..Len(streams) : StreamThrow(k) /\ UNCHANGED ingestRest

-----------------------------------------------------------------------------
(* analyzeVideoStream: the reader loop over the event stream *)

\* Strings are sequences of characters here.
NL == "\n"

DataPrefix == <<"d", "a", "t", "a", ":", " ">>

\* JSON.parse accepts the text: of the payloads sent here, the numbers.
JsonValid(text) ==
    /\ Len(text) > 0
    /\ \A i \in 1..Len(text) : text[i] \in {"1", "2"}

\* Records the service may send, without their blank line: an event with a
\* JSON payload (1, and 2), an event whose payload is not JSON, and a record
\* of two lines that starts with another field.
Records ==
    { DataPrefix \o <<"1">>, DataPrefix \o <<"2">>, DataPrefix \o <<"x">>,
      <<"i", "d", NL>> \o DataPrefix \o <<"2">> }

\* records in one response
MaxRecords == 2

RecordLists == UNION { [1..n -> Records] : n \in 0..MaxRecords }

\* What may follow the last blank line when the response ends.
Tails == { << >>, DataPrefix \o <<"2">> }

RECURSIVE Join(_)
\* Every record followed by its blank line.
Join(recs) ==
    IF recs = << >> THEN << >>
    ELSE Head(recs) \o <<NL, NL>> \o Join(Tail(recs))

Response(recs, tail) ==
    [records |-> recs, body |-> Join(recs) \o tail, pos |-> 0,
     buffer |-> << >>, yielded |-> << >>, done |-> FALSE, midBlank |-> FALSE]

\* Index of the first "\n\n" in text, 0 when there is none.
FirstBlank(text) ==
    LET hits == {i \in 1..(Len(text) - 1) : text[i] = NL /\ text[i + 1] = NL}
    IN  IF hits = {} THEN 0
        ELSE CHOOSE i \in hits : \A j \in hits : i <= j

RECURSIVE Split(_)
\* text.split('\n\n')
Split(text) ==
    LET i == FirstBlank(text)
    IN  IF i = 0 THEN <<text>>
        ELSE <<SubSeq(text, 1, i - 1)>> \o Split(SubSeq(text, i + 2, Len(text)))

\* line.startsWith('data: ')
StartsWithData(line) ==
    /\ Len(line) >= Len(DataPrefix)
    /\ SubSeq(line, 1, Len(DataPrefix)) = DataPrefix

\* line.slice(6)
Slice6(line) == SubSeq(line, Len(DataPrefix) + 1, Len(line))

RECURSIVE Yields(_)
\* The for loop over lines: the parsed payload of every line that starts with
\* 'data: ' and parses; a line that does not parse is logged and passed over.
Yields(ls) ==
    IF ls = << >> THEN << >>
    ELSE (IF StartsWithData(Head(ls)) /\ JsonValid(Slice6(Head(ls)))
          THEN <<Slice6(Head(ls))>>
          ELSE << >>) \o Yields(Tail(ls))

\* A reader loop that forgets the unfinished piece between reads.
RemainderDropped(ls) == << >>

\* buffer = lines.pop() || ''
Remainder(ls) == ls[Len(ls)]

\* reader.read() resolves with the next n characters of the body: they are
\* appended to the buffer, the buffer is split, the last piece is kept and
\* the others are looked at.
ReaderRead(n) ==
    LET text == sse.buffer \o SubSeq(sse.body, sse.pos + 1, sse.pos + n)
        ls == Split(text)
        end == sse.pos + n
    IN  /\ ~sse.done
        /\ n \in 1..(Len(sse.body) - sse.pos)
        /\ sse' = [sse EXCEPT
                      !.pos = end,
                      !.buffer = Remainder(ls),
                      !.yielded = @ \o Yields(SubSeq(ls, 1, Len(ls) - 1)),
                      !.midBlank = @ \/ (/\ end < Len(sse.body)
                                         /\ sse.body[end] = NL
                                         /\ sse.body[end + 1] = NL
                                         /\ end > 1
                                         /\ sse.body[end - 1] # NL)]

\* reader.read() resolves with done: the loop ends and the generator returns.
ReaderDone ==
    /\ ~sse.done
    /\ sse.pos = Len(sse.body)
    /\ sse' = [sse EXCEPT !.done = TRUE]

\* longest response body
MaxBody == MaxRecords * 12 + 7

parseRest == <<sessionVars, analysisVars, appVars, modalVars, wsVars,
               coachVars, bootVars, loads>>

NextParse ==
    \/ \E n \in 1..MaxBody : ReaderRead(n) /\ UNCHANGED parseRest
    \/ ReaderDone /\ UNCHANGED parseRest

-----------------------------------------------------------------------------
(* WebSocketManager *)

maxReconnectAttempts == 5

\* A socket that can still deliver events to its handlers.
WsLive(k) == wsSockets[k] \in {"connecting", "open", "closing"}

InitWs ==
    /\ wsSockets = << >>
    /\ wsCurrent = 0
    /\ reconnectAttempts = 0
    /\ wsTimers = 0
    /\ connected = FALSE
    /\ wsConnectCalls = 0

\* connect(sessionId): this.ws = new WebSocket(url), handlers attached.
WsNewSocket ==
    /\ Len(wsSockets) < MaxSockets
    /\ wsSockets' = Append(wsSockets, "connecting")
    /\ wsCurrent' = Len(wsSockets) + 1

\* An explicit connect() call by the application.
WsConnect ==
    /\ wsConnectCalls < MaxConnectCalls
    /\ WsNewSocket
    /\ wsConnectCalls' = wsConnectCalls + 1
    /\ UNCHANGED <<reconnectAttempts, wsTimers, connected>>

\* The reconnect timer scheduled by attemptReconnect fires and calls connect().
WsTimerFire ==
    /\ wsTimers > 0
    /\ WsNewSocket
    /\ wsTimers' = wsTimers - 1
    /\ UNCHANGED <<reconnectAttempts, connected, wsConnectCalls>>

\* ws.onopen
WsOnOpen(k) ==
    /\ wsSockets[k] = "connecting"
    /\ wsSockets' = [wsSockets EXCEPT ![k] = "open"]
    /\ connected' = TRUE
    /\ reconnectAttempts' = 0
    /\ UNCHANGED <<wsCurrent, wsTimers, wsConnectCalls>>

\* attemptReconnect(sessionId), as the pair (counter, timers) it leaves.
AttemptReconnectOff ==
    IF reconnectAttempts <= maxReconnectAttempts
    THEN <<reconnectAttempts + 1, wsTimers + 1>>
    ELSE <<reconnectAttempts, wsTimers>>

AttemptReconnect ==
    IF reconnectAttempts < maxReconnectAttempts
    THEN <<reconnectAttempts + 1, wsTimers + 1>>
    ELSE <<reconnectAttempts, wsTimers>>

\* ws.onclose: the socket failed to open, was closed by the peer, or finished
\* the closing handshake that disconnect() started.
WsOnClose(k) ==
    /\ WsLive(k)
    /\ wsSockets' = [wsSockets EXCEPT ![k] = "closed"]
    /\ connected' = FALSE
    /\ reconnectAttempts' = AttemptReconnect[1]
    /\ wsTimers' = AttemptReconnect[2]
    /\ UNCHANGED <<wsCurrent, wsConnectCalls>>

\* disconnect(): this.ws?.close(); this.ws = null.  close() only starts the
\* closing handshake; onclose is delivered later by WsOnClose.
WsDisconnect ==
    /\ wsCurrent # 0
    /\ wsSockets' = IF WsLive(wsCurrent)
                    THEN [wsSockets EXCEPT ![wsCurrent] = "closing"]
                    ELSE wsSockets
    /\ wsCurrent' = 0
    /\ UNCHANGED <<reconnectAttempts, wsTimers, connected, wsConnectCalls>>

NextWs ==
    \/ WsConnect /\ UNCHANGED wsRest
    \/ WsTimerFire /\ UNCHANGED wsRest
    \/ \E k \in 1..Len(wsSockets) : WsOnOpen(k) /\ UNCHANGED wsRest
    \/ \E k \in 1..Len(wsSockets) : WsOnClose(k) /\ UNCHANGED wsRest
    \/ WsDisconnect /\ UNCHANGED wsRest

-----------------------------------------------------------------------------
(* FeedbackFixModal and the fix part of useAnalysisStore *)

\* Feedback indices a caller may hand to openFixModal (0-based, as in the code).
FixIndices == {0, 1}

\* Feedback item index (0-based) names an item of the current analysis result.
InBounds(index) ==
    /\ currentAnalysis.present
    /\ index >= 0
    /\ index < Len(currentAnalysis.feedback_items)

\* An updateFeedbackItemStatus that forgets to count the attempt.
UpdateFeedbackItemStatusNoCount(index, status, fixFeedback) ==
    IF ~InBounds(index) THEN currentAnalysis
    ELSE [currentAnalysis EXCEPT !.feedback_items[index + 1] =
             [@ EXCEPT !.status = status,
                       !.fix_feedback = IF fixFeedback = "none" THEN @
                                        ELSE fixFeedback]]

\* An updateFeedbackItemStatus without the bounds check, writing to the last
\* item when the index lies beyond it.
UpdateFeedbackItemStatusClamped(index, status, fixFeedback) ==
    IF ~currentAnalysis.present \/ Len(currentAnalysis.feedback_items) = 0
    THEN currentAnalysis
    ELSE LET n == Len(currentAnalysis.feedback_items)
             at == IF index + 1 > n THEN n ELSE index + 1
         IN  [currentAnalysis EXCEPT !.feedback_items[at] =
                 [@ EXCEPT !.status = status,
                           !.fix_feedback = IF fixFeedback = "none" THEN @
                                            ELSE fixFeedback,
                           !.fix_attempts = @ + 1]]

\* updateFeedbackItemStatus(index, status, fixFeedback): the currentAnalysis it
\* leaves.  fixFeedback "none" is an omitted argument.
UpdateFeedbackItemStatus(index, status, fixFeedback) ==
    IF ~currentAnalysis.present THEN currentAnalysis
    ELSE IF index < 0 \/ index >= Len(currentAnalysis.feedback_items)
    THEN currentAnalysis
    ELSE [currentAnalysis EXCEPT !.feedback_items[index + 1] =
             [@ EXCEPT !.status = status,
                       !.fix_feedback = IF fixFeedback = "none" THEN @
                                        ELSE fixFeedback,
                       !.fix_attempts = @ + 1]]

\* A call of updateFeedbackItemStatus, and the count of the calls that named
\* an item of the current analysis result.
CallUpdateStatus(index, status, fixFeedback) ==
    /\ InBounds(index) => statusCalls[index + 1] < MaxAttempts
    /\ currentAnalysis' = UpdateFeedbackItemStatus(index, status, fixFeedback)
    /\ statusCalls' = IF InBounds(index)
                      THEN [statusCalls EXCEPT ![index + 1] = @ + 1]
                      ELSE statusCalls

\* openFixModal(index)
OpenFixModal(index) ==
    /\ fixModalOpen' = TRUE
    /\ fixModalFeedbackIndex' = JsNum(index)
    /\ fixEvaluating' = FALSE
    /\ fixResult' = "null"

\* closeFixModal()
CloseFixModal ==
    /\ fixModalOpen' = FALSE
    /\ fixModalFeedbackIndex' = JsNull
    /\ fixEvaluating' = FALSE
    /\ fixResult' = "null"

\* The modal renders (and its buttons exist) only when it is open and its
\* feedbackIndex names an item: the props are the store's fix modal fields.
ModalVisible ==
    /\ fixModalOpen
    /\ fixModalFeedbackIndex.k = "num"
    /\ InBounds(fixModalFeedbackIndex.v)

\* Something opens the fix modal for item index.
OpenFixModalFor(index) ==
    /\ OpenFixModal(index)
    /\ UNCHANGED <<sessionVars, progressVars, currentAnalysis,
                   highlightedFeedbackIndex, statusCalls, appVars, modalVars>>

\* A handleRecordComplete call that has ended.
ClosedFixStream == [idx |-> 0, state |-> "closed"]

\* handleRecordComplete up to its first await: feedbackIndex is captured.
HandleRecordComplete ==
    /\ ModalVisible
    /\ sessionId # 0
    /\ Len(fixStreams) < MaxFixStreams
    /\ phase' = "evaluating"
    /\ fixEvaluating' = TRUE
    /\ fixStreams' = Append(fixStreams, [idx |-> fixModalFeedbackIndex.v,
                                         state |-> "open"])
    /\ UNCHANGED <<sessionVars, progressVars, currentAnalysis,
                   highlightedFeedbackIndex, fixModalOpen,
                   fixModalFeedbackIndex, fixResult, statusCalls, appVars>>

\* The chunks evaluateFixStream may yield that the modal acts on beyond its
\* status line: complete with is_fixed true or false, complete with a payload
\* that is not JSON, error.
FixChunks == {"complete_fixed", "complete_notfixed", "complete_bad", "error"}

\* case 'complete' of request k with a result: setFixResult, setPhase,
\* updateFeedbackItemStatus for the captured index, and the progress counter.
FixComplete(k, isFixed) ==
    /\ fixStreams[k].state = "open"
    /\ fixStreams' = [fixStreams EXCEPT ![k].state = "done"]
    /\ fixResult' = IF isFixed THEN "fixed" ELSE "notfixed"
    /\ fixEvaluating' = FALSE
    /\ phase' = "result"
    /\ CallUpdateStatus(fixStreams[k].idx,
                        IF isFixed THEN "fixed" ELSE "unfixed", "explanation")
    /\ feedbackAddressed' = IF isFixed THEN feedbackAddressed + 1
                            ELSE feedbackAddressed
    /\ UNCHANGED <<slotVars, viewVars, recorderVars, progressVars,
                   highlightedFeedbackIndex, fixModalOpen,
                   fixModalFeedbackIndex, appVars>>

\* case 'complete' with JSON.parse throwing, and case 'error': back to idle.
FixFailed(k) ==
    /\ fixStreams[k].state = "open"
    /\ fixStreams' = [fixStreams EXCEPT ![k].state = "done"]
    /\ phase' = "idle"
    /\ UNCHANGED <<sessionVars, analysisVars, appVars>>

\* One terminal chunk of fix request k.
FixChunk(k, chunk) ==
    CASE chunk = "complete_fixed" -> FixComplete(k, TRUE)
      [] chunk = "complete_notfixed" -> FixComplete(k, FALSE)
      [] chunk = "complete_bad" -> FixFailed(k)
      [] chunk = "error" -> FixFailed(k)

\* The response body of request k ends: finally { setFixEvaluating(false) }.
FixStreamEnd(k) ==
    /\ fixStreams[k].state \in {"open", "done"}
    /\ fixStreams' = [fixStreams EXCEPT ![k] = ClosedFixStream]
    /\ fixEvaluating' = FALSE
    /\ UNCHANGED <<sessionVars, progressVars, currentAnalysis,
                   highlightedFeedbackIndex, fixModalOpen,
                   fixModalFeedbackIndex, fixResult, statusCalls, appVars,
                   phase>>

\* evaluateFixStream throws: the catch block, then finally.
FixStreamThrow(k) ==
    /\ fixStreams[k].state \in {"open", "done"}
    /\ fixStreams' = [fixStreams EXCEPT ![k] = ClosedFixStream]
    /\ phase' = "idle"
    /\ fixEvaluating' = FALSE
    /\ UNCHANGED <<sessionVars, progressVars, currentAnalysis,
                   highlightedFeedbackIndex, fixModalOpen,
                   fixModalFeedbackIndex, fixResult, statusCalls, appVars>>

\* handleSkip: updateFeedbackItemStatus(feedbackIndex, 'skipped'), onClose().
HandleSkip ==
    /\ ModalVisible
    /\ CallUpdateStatus(fixModalFeedbackIndex.v, "skipped", "none")
    /\ CloseFixModal
    /\ UNCHANGED <<sessionVars, progressVars, highlightedFeedbackIndex,
                   appVars, modalVars>>

\* handleTryAgain: setPhase('idle'), setFixResult(null).
HandleTryAgain ==
    /\ ModalVisible
    /\ phase = "result"
    /\ phase' = "idle"
    /\ fixResult' = "null"
    /\ fixEvaluating' = FALSE
    /\ UNCHANGED <<sessionVars, progressVars, currentAnalysis,
                   highlightedFeedbackIndex, fixModalOpen,
                   fixModalFeedbackIndex, statusCalls, appVars, fixStreams>>

NextFix ==
    \/ \E data \in FullSessions :
          HandleLoadSession(data) /\ UNCHANGED <<modalVars, fixRest>>
    \/ \E index \in FixIndices : OpenFixModalFor(index) /\ UNCHANGED fixRest
    \/ HandleRecordComplete /\ UNCHANGED <<fixRest, fixIssuedIn>>
    \/ \E k \in 1..Len(fixStreams), chunk \in FixChunks :
          FixChunk(k, chunk) /\ UNCHANGED <<fixRest, fixIssuedIn>>
    \/ \E k \in 1..Len(fixStreams) :
          FixStreamEnd(k) /\ UNCHANGED <<fixRest, fixIssuedIn>>
    \/ \E k \in 1..Len(fixStreams) :
          FixStreamThrow(k) /\ UNCHANGED <<fixRest, fixIssuedIn>>
    \/ HandleSkip /\ UNCHANGED fixRest
    \/ HandleTryAgain /\ UNCHANGED <<fixRest, fixIssuedIn>>

\* The fix modal with the session of every request on record: fixIssuedIn
\* takes the sessionId handleRecordComplete hands to evaluateFixStream and
\* forgets it when the request has ended.
NextLateFix ==
    \/ \E data \in FullSessions :
          HandleLoadSession(data) /\ UNCHANGED <<modalVars, fixRest>>
    \/ \E index \in FixIndices : OpenFixModalFor(index) /\ UNCHANGED fixRest
    \/ HandleRecordComplete /\ fixIssuedIn' = Append(fixIssuedIn, sessionId)
          /\ UNCHANGED fixRest
    \/ \E k \in 1..Len(fixStreams), chunk \in FixChunks :
          FixChunk(k, chunk) /\ UNCHANGED <<fixRest, fixIssuedIn>>
    \/ \E k \in 1..Len(fixStreams) :
          FixStreamEnd(k) /\ fixIssuedIn' = [fixIssuedIn EXCEPT ![k] = 0]
              /\ UNCHANGED fixRest
    \/ \E k \in 1..Len(fixStreams) :
          FixStreamThrow(k) /\ fixIssuedIn' = [fixIssuedIn EXCEPT ![k] = 0]
              /\ UNCHANGED fixRest
    \/ HandleSkip /\ UNCHANGED fixRest
    \/ HandleTryAgain /\ UNCHANGED <<fixRest, fixIssuedIn>>

-----------------------------------------------------------------------------
(* The coach channel: ChatClient and CoachPanel *)

InitCoach ==
    /\ chatSockets = << >>
    /\ clientRef = 0
    /\ coachConnected = FALSE
    /\ messages = << >>
    /\ countdown = 0
    /\ countdownTimers = 0
    /\ outbox = << >>
    /\ framesReceived = 0
    /\ playbackPos = 0
    /\ prevAnalysisRef = FALSE
    /\ contextLog = [due |-> FALSE, sent |-> 0]
    /\ clientSessionId = 0
    /\ lastFrame = "none"
    /\ countdownLog = [queue |-> << >>, opened |-> 0]
    /\ connectLog = [clicks |-> 0, live |-> << >>]
    /\ loads = [pending |-> {}, selected |-> 0, ok |-> FALSE]

\* The tools handleToolCall dispatches on.
ToolNames ==
    {"open_feedback_modal", "seek_video", "show_original", "record_final",
     "show_feedback_card", "switch_tab"}

\* The value a tool call carries in the argument its tool reads (index,
\* timestamp_seconds or tab): a JavaScript value by kind, number n or string s.
Arg(k, n, s) == [k |-> k, n |-> n, s |-> s]

ArgAbsent == Arg("absent", 0, "")

\* The values the coach service may put there, by tool.
ArgsOf(name) ==
    CASE name \in {"open_feedback_modal", "show_feedback_card"} ->
            {ArgAbsent, Arg("num", 0, ""), Arg("num", 5, ""),
             Arg("str", 0, "bogus")}
      [] name = "seek_video" ->
            {ArgAbsent, Arg("null", 0, ""), Arg("nan", 0, ""),
             Arg("inf", 0, ""), Arg("num", -1, ""), Arg("num", 0, ""),
             Arg("num", 5, ""), Arg("str", 0, "bogus")}
      [] name = "switch_tab" ->
            {ArgAbsent, Arg("null", 0, ""), Arg("num", 0, "")}
            \cup {Arg("str", 0, t) : t \in VideoTypes \cup {"bogus"}}
      [] OTHER -> {ArgAbsent}

\* Frames the coach service may send.  "garbage" is a frame that is not JSON,
\* "unknown" a JSON frame of a type handleMessage does not know; a tool_call
\* without args has hasArgs FALSE.
Frame(type, name, hasArgs, arg) ==
    [type |-> type, name |-> name, hasArgs |-> hasArgs, arg |-> arg]

ToolCallFrames ==
    UNION {{Frame("tool_call", nm, TRUE, a) : a \in ArgsOf(nm)} :
              nm \in ToolNames \cup {"bogus_tool"}}
    \cup {Frame("tool_call", nm, FALSE, ArgAbsent) :
              nm \in ToolNames \cup {"bogus_tool"}}

Frames ==
    {Frame(t, "", FALSE, ArgAbsent) :
        t \in {"connected", "text", "error", "unknown", "garbage"}}
    \cup ToolCallFrames

\* x ?? 0 for the argument x
OrZero(a) == IF a.k \in {"absent", "null"} THEN Arg("num", 0, "") ELSE a

\* An index or other value as the stores keep it.
Stored(a) ==
    CASE a.k = "num" -> JsNum(a.n)
      [] a.k = "str" -> JsStr
      [] a.k = "nan" -> JsNaN
      [] a.k = "inf" -> JsInf
      [] a.k = "null" -> JsNull
      [] a.k = "absent" -> JsAbsent

\* A validity test that forgets the sign.
ValidTimestampAnySign(t) == t.k = "num"

\* typeof timestamp === 'number' && Number.isFinite(timestamp) && timestamp >= 0
ValidTimestamp(t) == t.k = "num" /\ t.n >= 0

\* What handleToolCall may change.
toolVars == <<viewVars, highlightedFeedbackIndex, fixModalVars, countdown,
             countdownTimers, playbackPos, messages, outbox>>

\* addMessage(role, content)
AddMessage(role, text) ==
    /\ messages' = Append(messages, [role |-> role, text |-> text, n |-> 1])

\* ChatClient.sendText / sendContext / sendToolResult on the client of
\* clientRef.current: the frame leaves only when its socket is OPEN.
Send(frame) ==
    IF clientRef # 0 /\ chatSockets[clientRef] = "open"
    THEN /\ Len(outbox) < MaxOutbox
         /\ outbox' = Append(outbox, frame)
    ELSE UNCHANGED outbox

ToolResult(name, status) == [type |-> "tool_result", name |-> name, status |-> status]

\* sendResult(result), result defaulting to { status: 'ok' }
SendResult(name, status) == Send(ToolResult(name, status))

\* switchToVideo(type), no practice clip id given
SwitchToVideo(type) ==
    /\ activeVideoType' = type
    /\ currentVideoUrl' =
          CASE type = "original" -> originalVideo.url
            [] type = "practice" ->
                  IF Len(practiceClips) > 0 THEN practiceClips[Len(practiceClips)]
                  ELSE 0
            [] type = "final" -> finalVideo.url
    /\ selectedPracticeClipId' = 0

\* startCountdown(3, onRecordFinal)
CountdownSeconds == 3

StartCountdown ==
    /\ countdown' = CountdownSeconds
    /\ countdownTimers' = countdownTimers + 1

\* The onOpenFixModal prop of the coach panel: the store's openFixModal.
OnOpenFixModal(index) ==
    /\ fixModalOpen' = TRUE
    /\ fixModalFeedbackIndex' = index
    /\ fixEvaluating' = FALSE
    /\ fixResult' = "null"

\* handleToolCall reads a property of an args that is undefined: a TypeError.
ToolCallThrows(name, hasArgs) ==
    ~hasArgs /\ name \in ToolNames \ {"show_original"}

\* case 'seek_video'
SeekVideo(hasArgs, arg) ==
    LET timestamp == OrZero(arg) IN
    IF ValidTimestamp(timestamp)
    THEN /\ AddMessage("system", "tool")
         /\ playbackPos' = timestamp.n
         /\ SendResult("seek_video", "ok")
         /\ UNCHANGED <<viewVars, highlightedFeedbackIndex, fixModalVars,
                        countdown, countdownTimers>>
    ELSE /\ AddMessage("system", "invalid")
         /\ SendResult("seek_video", "error")
         /\ UNCHANGED <<viewVars, highlightedFeedbackIndex, fixModalVars,
                        countdown, countdownTimers, playbackPos>>

\* case 'switch_tab'
SwitchTab(hasArgs, arg) ==
    LET tab == IF arg.k \in {"absent", "null"} THEN Arg("str", 0, "original")
               ELSE arg
    IN  IF tab.k = "str" /\ tab.s \in VideoTypes
        THEN /\ AddMessage("system", "tool")
             /\ SwitchToVideo(tab.s)
             /\ SendResult("switch_tab", "ok")
             /\ UNCHANGED <<highlightedFeedbackIndex, fixModalVars, countdown,
                            countdownTimers, playbackPos>>
        ELSE UNCHANGED toolVars

\* handleToolCall(name, args): the switch on the tool's name.
HandleToolCall(name, hasArgs, arg) ==
    IF ToolCallThrows(name, hasArgs) THEN UNCHANGED toolVars
    ELSE CASE name = "open_feedback_modal" ->
                /\ AddMessage("system", "tool")
                /\ OnOpenFixModal(Stored(OrZero(arg)))
                /\ SendResult(name, "ok")
                /\ UNCHANGED <<viewVars, highlightedFeedbackIndex, countdown,
                               countdownTimers, playbackPos>>
           [] name = "seek_video" -> SeekVideo(hasArgs, arg)
           [] name = "show_original" ->
                /\ AddMessage("system", "tool")
                /\ SwitchToVideo("original")
                /\ SendResult(name, "ok")
                /\ UNCHANGED <<highlightedFeedbackIndex, fixModalVars, countdown,
                               countdownTimers, playbackPos>>
           [] name = "record_final" ->
                /\ AddMessage("system", "tool")
                /\ StartCountdown
                /\ SendResult(name, "ok")
                /\ UNCHANGED <<viewVars, highlightedFeedbackIndex, fixModalVars,
                               playbackPos>>
           [] name = "show_feedback_card" ->
                /\ AddMessage("system", "tool")
                /\ highlightedFeedbackIndex' = Stored(OrZero(arg))
                /\ SendResult(name, "ok")
                /\ UNCHANGED <<viewVars, fixModalVars, countdown,
                               countdownTimers, playbackPos>>
           [] name = "switch_tab" -> SwitchTab(hasArgs, arg)
           [] OTHER -> UNCHANGED toolVars

\* appendToLastCoachMessage(text)
AppendToLastCoachMessage ==
    IF Len(messages) > 0 /\ messages[Len(messages)].role = "coach"
    THEN messages' = [messages EXCEPT ![Len(messages)].n = @ + 1]
    ELSE AddMessage("coach", "text")

\* ChatClient.handleMessage(data) with the callbacks CoachPanel.connect gave.
HandleMessage(frame) ==
    CASE frame.type = "connected" ->
            /\ coachConnected' = TRUE
            /\ AddMessage("system", "connected")
            /\ UNCHANGED <<viewVars, highlightedFeedbackIndex, fixModalVars,
                           countdown, countdownTimers, playbackPos, outbox>>
      [] frame.type = "text" ->
            /\ AppendToLastCoachMessage
            /\ UNCHANGED <<coachConnected, viewVars, highlightedFeedbackIndex,
                           fixModalVars, countdown, countdownTimers,
                           playbackPos, outbox>>
      [] frame.type = "tool_call" ->
            /\ HandleToolCall(frame.name, frame.hasArgs, frame.arg)
            /\ UNCHANGED coachConnected
      [] frame.type = "error" ->
            /\ AddMessage("system", "error")
            /\ UNCHANGED <<coachConnected, viewVars, highlightedFeedbackIndex,
                           fixModalVars, countdown, countdownTimers,
                           playbackPos, outbox>>
      [] OTHER -> UNCHANGED <<coachConnected, toolVars>>

\* An onmessage whose catch block reports the frame it could not parse as an
\* error in the chat.
ChatOnMessageReportsGarbage(k, frame) ==
    /\ chatSockets[k] = "open"
    /\ framesReceived' = framesReceived + 1
    /\ IF frame.type = "garbage"
       THEN /\ AddMessage("system", "error")
            /\ UNCHANGED <<coachConnected, viewVars, highlightedFeedbackIndex,
                           fixModalVars, countdown, countdownTimers,
                           playbackPos, outbox>>
       ELSE HandleMessage(frame)
    /\ UNCHANGED <<slotVars, recorderVars, feedbackAddressed, progressVars,
                   currentAnalysis, statusCalls, appVars, modalVars,
                   chatSockets, clientRef>>

\* ws.onmessage of client k: JSON.parse and handleMessage inside try/catch;
\* a frame that is not JSON, and a handler that throws, change nothing.
ChatOnMessage(k, frame) ==
    /\ chatSockets[k] = "open"
    /\ framesReceived' = framesReceived + 1
    /\ IF frame.type = "garbage" THEN UNCHANGED <<coachConnected, toolVars>>
       ELSE HandleMessage(frame)
    /\ UNCHANGED <<slotVars, recorderVars, feedbackAddressed, progressVars,
                   currentAnalysis, statusCalls, appVars, modalVars,
                   chatSockets, clientRef>>

\* The context frame sendContext encodes.
ContextFrame == [type |-> "context", name |-> "", status |-> ""]

\* ChatClient.sendContext(analysis) on a client whose socket has readyState
\* ws: the frame goes out only when the socket is OPEN.
SendContext(ws) ==
    IF ws = "open"
    THEN /\ Len(outbox) < MaxOutbox
         /\ outbox' = Append(outbox, ContextFrame)
         /\ contextLog' = [due |-> TRUE, sent |-> 1]
    ELSE /\ UNCHANGED outbox
         /\ contextLog' = [due |-> TRUE, sent |-> 0]

\* The body of connect() past its guard, with analysis the currentAnalysis
\* its closure holds: new ChatClient, clientRef.current = client,
\* await client.connect(sessionId), then
\* sendContext when there is a result.  client.connect() returns with the
\* socket it created still CONNECTING.
ConnectWithin(cap, analysis) ==
    /\ Len(chatSockets) < cap
    /\ chatSockets' = Append(chatSockets, "connecting")
    /\ clientRef' = Len(chatSockets) + 1
    /\ IF analysis.present
       THEN SendContext(chatSockets'[clientRef'])
       ELSE /\ UNCHANGED outbox
            /\ contextLog' = [due |-> FALSE, sent |-> 0]

Connect(analysis) == ConnectWithin(MaxClients, analysis)

\* The Connect button: connect(), which returns at once when clientRef.current
\* is set.
CoachConnect ==
    /\ clientRef = 0
    /\ Connect(currentAnalysis)
    /\ UNCHANGED <<sessionVars, analysisVars, appVars, modalVars,
                   coachConnected, messages, countdown, countdownTimers,
                   framesReceived, playbackPos>>

\* The auto-connect effect of CoachPanel, run after a render in which
\* currentAnalysis changed: connect() when a result appeared where the ref
\* held none and there is neither a connection nor a client; then the ref
\* takes the new value.
AutoConnectEffect ==
    /\ IF /\ currentAnalysis'.present
          /\ ~prevAnalysisRef
          /\ ~coachConnected
          /\ clientRef = 0
       THEN Connect(currentAnalysis')
       ELSE UNCHANGED <<chatSockets, clientRef, outbox, contextLog>>
    /\ prevAnalysisRef' = currentAnalysis'.present
    /\ UNCHANGED <<coachConnected, messages, countdown, countdownTimers,
                   framesReceived, playbackPos>>

\* ws.onopen of client k: a log line.
ChatWsOpen(k) ==
    /\ chatSockets[k] = "connecting"
    /\ chatSockets' = [chatSockets EXCEPT ![k] = "open"]
    /\ UNCHANGED <<sessionVars, analysisVars, appVars, modalVars, clientRef,
                   coachConnected, messages, countdown, countdownTimers,
                   outbox, framesReceived, playbackPos>>

\* ws.onclose of client k: onDisconnected.
ChatWsClose(k) ==
    /\ chatSockets[k] \in {"connecting", "open", "closing"}
    /\ chatSockets' = [chatSockets EXCEPT ![k] = "closed"]
    /\ coachConnected' = FALSE
    /\ AddMessage("system", "disconnected")
    /\ UNCHANGED <<sessionVars, analysisVars, appVars, modalVars, clientRef,
                   countdown, countdownTimers, outbox, framesReceived,
                   playbackPos>>

\* ws.onerror of client k: onError('WebSocket connection failed').
ChatWsError(k) ==
    /\ chatSockets[k] = "connecting"
    /\ chatSockets' = [chatSockets EXCEPT ![k] = "closing"]
    /\ AddMessage("system", "error")
    /\ UNCHANGED <<sessionVars, analysisVars, appVars, modalVars, clientRef,
                   coachConnected, countdown, countdownTimers, outbox,
                   framesReceived, playbackPos>>

\* A disconnect that waits for the close event before it lets go of the
\* socket: the client keeps its socket and the panel its client.
CoachDisconnectDeferred ==
    /\ clientRef # 0
    /\ coachConnected' = FALSE
    /\ UNCHANGED <<sessionVars, analysisVars, appVars, modalVars, messages,
                   countdown, countdownTimers, outbox, framesReceived,
                   playbackPos, chatSockets, clientRef>>

\* CoachPanel.disconnect(): ChatClient.disconnect() starts the closing
\* handshake, clientRef.current = null, setIsConnected(false).
CoachDisconnect ==
    /\ clientRef # 0
    /\ chatSockets' =
          IF chatSockets[clientRef] \in {"connecting", "open"}
          THEN [chatSockets EXCEPT ![clientRef] = "closing"]
          ELSE chatSockets
    /\ clientRef' = 0
    /\ coachConnected' = FALSE
    /\ UNCHANGED <<sessionVars, analysisVars, appVars, modalVars, messages,
                   countdown, countdownTimers, outbox, framesReceived,
                   playbackPos>>

\* sendMessage() with a non-empty input text.
SendMessage ==
    /\ clientRef # 0
    /\ coachConnected
    /\ AddMessage("user", "text")
    /\ Send([type |-> "text", name |-> "", status |-> ""])
    /\ UNCHANGED <<sessionVars, analysisVars, appVars, modalVars, chatSockets,
                   clientRef, coachConnected, countdown, countdownTimers,
                   framesReceived, playbackPos>>

\* One tick of a startCountdown interval; at the end the timer is cleared
\* and onRecordFinal opens the recorder for the final take.
CountdownTick ==
    /\ countdownTimers > 0
    /\ IF countdown <= 1
       THEN /\ countdownTimers' = countdownTimers - 1
            /\ countdown' = 0
            /\ OpenRecorder("final")
       ELSE /\ countdown' = countdown - 1
            /\ UNCHANGED <<countdownTimers, sessionVars>>
    /\ UNCHANGED <<analysisVars, appVars, modalVars, chatSockets, clientRef,
                   coachConnected, messages, outbox, framesReceived,
                   playbackPos>>

\* The coach service receives the oldest frame sent to it.
ServiceReceive ==
    /\ Len(outbox) > 0
    /\ outbox' = Tail(outbox)
    /\ UNCHANGED <<sessionVars, analysisVars, appVars, modalVars, chatSockets,
                   clientRef, coachConnected, messages, countdown,
                   countdownTimers, framesReceived, playbackPos>>

\* The step keeps the transcript and the pending intervals within bounds.
Within(lines, timers) ==
    /\ Len(messages') <= lines
    /\ countdownTimers' <= timers

NextTool ==
    \/ \E data \in FullSessions :
          HandleLoadSession(data) /\ AutoConnectEffect
              /\ UNCHANGED <<modalVars, wsVars, bootVars, sse, loads, clientSessionId,
                             lastFrame, coachLog>>
    \/ CoachConnect /\ UNCHANGED <<wsVars, bootVars, sse, loads, prevAnalysisRef,
                                   clientSessionId, lastFrame, coachLog>>
    \/ \E k \in 1..Len(chatSockets) : ChatWsOpen(k) /\ UNCHANGED toolRest
    \/ \E k \in 1..Len(chatSockets), frame \in Frames :
          framesReceived < MaxFrames /\ ChatOnMessage(k, frame)
                /\ Within(MaxMessages, MaxTimers)
              /\ UNCHANGED toolRest
    \/ \E k \in 1..Len(chatSockets) : ChatWsClose(k)
          /\ Within(MaxMessages, MaxTimers) /\ UNCHANGED toolRest
    \/ \E k \in 1..Len(chatSockets) : ChatWsError(k)
          /\ Within(MaxMessages, MaxTimers) /\ UNCHANGED toolRest
    \/ CoachDisconnect /\ UNCHANGED toolRest
    \/ SendMessage /\ Within(MaxMessages, MaxTimers) /\ UNCHANGED toolRest
    \/ CountdownTick /\ UNCHANGED toolRest
    \/ ServiceReceive /\ UNCHANGED toolRest

\* client.connect(sessionId) of a ChatClient created in this step puts the
\* active session's id into the URL of its socket.
BindSession ==
    clientSessionId' = IF clientRef' # clientRef /\ clientRef' # 0
                       THEN sessionId'
                       ELSE clientSessionId

\* The coach channel with the session of its socket's URL on record.
NextBind ==
    \/ \E data \in FullSessions :
          HandleLoadSession(data) /\ AutoConnectEffect /\ BindSession
              /\ UNCHANGED <<modalVars, wsVars, bootVars, sse, loads, lastFrame,
                             coachLog>>
    \/ CoachConnect /\ BindSession
          /\ UNCHANGED <<wsVars, bootVars, sse, loads, prevAnalysisRef, lastFrame,
                         coachLog>>
    \/ \E k \in 1..Len(chatSockets) : ChatWsOpen(k) /\ UNCHANGED toolRest
    \/ \E k \in 1..Len(chatSockets), frame \in Frames :
          framesReceived < MaxFrames /\ ChatOnMessage(k, frame)
                /\ Within(MaxMessages, MaxTimers)
              /\ UNCHANGED toolRest
    \/ \E k \in 1..Len(chatSockets) : ChatWsClose(k)
          /\ Within(MaxMessages, MaxTimers) /\ UNCHANGED toolRest
    \/ \E k \in 1..Len(chatSockets) : ChatWsError(k)
          /\ Within(MaxMessages, MaxTimers) /\ UNCHANGED toolRest
    \/ CoachDisconnect /\ UNCHANGED toolRest
    \/ SendMessage /\ Within(MaxMessages, MaxTimers) /\ UNCHANGED toolRest
    \/ CountdownTick /\ UNCHANGED toolRest
    \/ ServiceReceive /\ UNCHANGED toolRest

\* startCountdown in this step puts a new interval behind the pending ones:
\* its first tick comes a second later, after each of them has ticked.
LogCountdownStart ==
    countdownLog' =
        IF countdownTimers' > countdownTimers
        THEN [countdownLog EXCEPT !.queue = Append(@, 0)]
        ELSE countdownLog

\* The interval that fires is the one at the head of the queue: it leaves
\* when its callback clears it and calls onComplete, and goes to the back
\* with one more tick otherwise.
LogCountdownTick ==
    /\ Len(countdownLog.queue) > 0
    /\ countdownLog' =
          IF countdown <= 1
          THEN [queue |-> Tail(countdownLog.queue),
                opened |-> Head(countdownLog.queue) + 1]
          ELSE [countdownLog EXCEPT
                   !.queue = Append(Tail(@), Head(@) + 1)]

\* The coach channel with its countdown intervals on record, each firing
\* once a second in its turn.
NextCountdown ==
    \/ CoachConnect
          /\ UNCHANGED <<wsVars, bootVars, sse, loads, prevAnalysisRef, clientSessionId,
                         lastFrame, coachLog>>
    \/ \E k \in 1..Len(chatSockets) : ChatWsOpen(k) /\ UNCHANGED toolRest
    \/ \E k \in 1..Len(chatSockets), frame \in Frames :
          framesReceived < MaxFrames /\ ChatOnMessage(k, frame)
                /\ Within(MaxMessages, MaxIntervals)
              /\ LogCountdownStart /\ UNCHANGED <<toolQuiet, connectLog>>
    \/ CountdownTick /\ LogCountdownTick
          /\ UNCHANGED <<toolQuiet, connectLog>>
    \/ ServiceReceive /\ UNCHANGED toolRest

\* A press of the Connect button, shown while the panel is offline: the whole
\* of connect(), its early return included.
ConnectButton ==
    /\ ~coachConnected
    /\ connectLog.clicks < MaxClicks
    /\ IF clientRef # 0
       THEN /\ UNCHANGED <<chatSockets, clientRef, outbox, contextLog>>
            /\ connectLog' = [connectLog EXCEPT !.clicks = @ + 1]
       ELSE /\ ConnectWithin(MaxChannels, currentAnalysis)
            /\ connectLog' = [clicks |-> connectLog.clicks + 1,
                              live |-> Append(connectLog.live, FALSE)]
    /\ UNCHANGED <<sessionVars, analysisVars, appVars, modalVars,
                   coachConnected, messages, countdown, countdownTimers,
                   framesReceived, playbackPos>>

\* ChatClient k's isConnected field becomes b.
LogLive(k, b) == connectLog' = [connectLog EXCEPT !.live[k] = b]

reconnectRest == <<toolQuiet, countdownLog>>

\* The frames that carry no tool call.
ChannelFrames ==
    {Frame(t, "", FALSE, ArgAbsent) : t \in {"connected", "text", "error"}}

\* The coach channel over several clients: the user connects and disconnects,
\* the service answers, and sockets open, fail and close.
NextReconnect ==
    \/ ConnectButton /\ UNCHANGED <<wsVars, bootVars, sse, loads, prevAnalysisRef,
                                    clientSessionId, lastFrame, countdownLog>>
    \/ \E k \in 1..Len(chatSockets) : ChatWsOpen(k) /\ UNCHANGED toolRest
    \/ \E k \in 1..Len(chatSockets), frame \in ChannelFrames :
          /\ framesReceived < MaxFrames
          /\ ChatOnMessage(k, frame) /\ Within(MaxTranscript, MaxTimers)
          /\ IF frame.type = "connected" THEN LogLive(k, TRUE)
             ELSE UNCHANGED connectLog
          /\ UNCHANGED reconnectRest
    \/ \E k \in 1..Len(chatSockets) :
          ChatWsClose(k)
                /\ Within(MaxTranscript, MaxTimers) /\ LogLive(k, FALSE) /\ UNCHANGED reconnectRest
    \/ \E k \in 1..Len(chatSockets) : ChatWsError(k)
          /\ Within(MaxTranscript, MaxTimers) /\ UNCHANGED toolRest
    \/ /\ coachConnected      \* the End button is shown while online
       /\ CoachDisconnect /\ LogLive(clientRef, FALSE)
       /\ UNCHANGED reconnectRest

\* What the chat history does not record.
chatRest == <<wsVars, bootVars, sse, loads, prevAnalysisRef, contextLog,
             clientSessionId,
             coachLog>>

\* The conversation on one channel: frames from the coach and messages of
\* the user, with lastFrame recording the latest of them.
NextChat ==
    \/ CoachConnect /\ lastFrame' = "none"
          /\ UNCHANGED <<wsVars, bootVars, sse, loads, prevAnalysisRef, clientSessionId,
                         coachLog>>
    \/ \E k \in 1..Len(chatSockets) :
          ChatWsOpen(k) /\ UNCHANGED <<chatRest, lastFrame>>
    \/ \E k \in 1..Len(chatSockets), frame \in Frames :
          framesReceived < MaxChatFrames /\ ChatOnMessage(k, frame)
                /\ Within(MaxMessages, MaxTimers)
              /\ lastFrame' = frame.type /\ UNCHANGED chatRest
    \/ \E k \in 1..Len(chatSockets) :
          ChatWsClose(k)
                /\ Within(MaxMessages, MaxTimers) /\ UNCHANGED <<chatRest, lastFrame>>
    \/ SendMessage
          /\ Within(MaxMessages, MaxTimers) /\ lastFrame' = "user" /\ UNCHANGED chatRest
    \/ ServiceReceive /\ UNCHANGED <<chatRest, lastFrame>>

\* A click on a session of the sidebar: handleLoadSession(id) up to its
\* await, the request for the session is on its way.
SelectSession(id) ==
    /\ id \notin loads.pending
    /\ loads' = [pending |-> loads.pending \cup {id}, selected |-> id,
                 ok |-> FALSE]
    /\ UNCHANGED <<sessionVars, analysisVars, appVars>>

\* fetchFullSession resolves with data: the rest of that handleLoadSession
\* call runs.
LoadResolves(data) ==
    /\ data.session_id \in loads.pending
    /\ HandleLoadSession(data)
    /\ loads' = [loads EXCEPT
                    !.pending = @ \ {data.session_id},
                    !.ok = @ \/ data.session_id = loads.selected]

\* fetchFullSession rejects: the catch block logs.
LoadRejects(id) ==
    /\ id \in loads.pending
    /\ loads' = [loads EXCEPT !.pending = @ \ {id}]
    /\ UNCHANGED <<sessionVars, analysisVars, appVars>>

switchRest == <<modalVars, wsVars, coachVars, bootVars, sse>>

\* Sessions picked from the sidebar, their fetches resolving in any order.
NextSwitch ==
    \/ \E id \in {1, 2} : SelectSession(id) /\ UNCHANGED switchRest
    \/ \E data \in HydratedSessions :
          LoadResolves(data) /\ UNCHANGED switchRest
    \/ \E id \in {1, 2} : LoadRejects(id) /\ UNCHANGED switchRest

\* switchToVideo('practice', id) for the clip at position id.
SwitchToClip(id) ==
    /\ activeVideoType' = "practice"
    /\ currentVideoUrl' = practiceClips[id]
    /\ selectedPracticeClipId' = id

viewRest == <<slotVars, recorderVars, feedbackAddressed, analysisVars, appVars>>

\* The Original and Final buttons of VideoTabs, disabled while their slot is
\* empty.
TabClick(type) ==
    /\ \/ type = "original" /\ originalVideo.present
       \/ type = "final" /\ finalVideo.present
    /\ SwitchToVideo(type)
    /\ UNCHANGED viewRest

\* The Practice button, which shows the latest clip, and the entries of the
\* clip list under it.
ClipClick(id) ==
    /\ id \in 1..Len(practiceClips)
    /\ SwitchToClip(id)
    /\ UNCHANGED viewRest

\* The onShowOriginal and onSwitchTab props of the coach panel: switchToVideo
\* with the tab alone, whatever the slots hold.
OnSwitchTab(type) ==
    /\ SwitchToVideo(type)
    /\ UNCHANGED viewRest

\* The onRecordFinal prop of the coach panel.
OnRecordFinal ==
    /\ OpenRecorder("final")
    /\ UNCHANGED <<analysisVars, appVars>>

\* The chunks that end a request; the others write progress text only.
ClosingChunks == {chunk \in Chunks : Terminal(chunk)}

\* Everything that writes the session store: sessions, uploads, recordings,
\* analyses, and the switches of the view.
NextView ==
    \/ HandleNewSession /\ UNCHANGED ingestRest
    \/ \E data \in FullSessions : HandleLoadSession(data) /\ UNCHANGED ingestRest
    \/ UploadStart /\ UNCHANGED ingestRest
    \/ Len(streams) < MaxStreams /\ NoneRunning /\ UploadDone
          /\ UNCHANGED ingestRest
    \/ UploadFail /\ UNCHANGED ingestRest
    \/ ClickRecord /\ UNCHANGED ingestRest
    \/ OnRecordFinal /\ UNCHANGED ingestRest
    \/ Len(streams) < MaxStreams /\ NoneRunning /\ RecorderUploadComplete
          /\ UNCHANGED ingestRest
    \/ \E k \in 1..Len(streams), chunk \in ClosingChunks :
          StreamChunk(k, chunk) /\ UNCHANGED ingestRest
    \/ \E k \in 1..Len(streams) : StreamEnd(k) /\ UNCHANGED ingestRest
    \/ \E k \in 1..Len(streams) : StreamThrow(k) /\ UNCHANGED ingestRest
    \/ \E type \in {"original", "final"} : TabClick(type) /\ UNCHANGED ingestRest
    \/ \E id \in 1..Len(practiceClips) : ClipClick(id) /\ UNCHANGED ingestRest
    \/ \E type \in VideoTypes : OnSwitchTab(type) /\ UNCHANGED ingestRest

\* Hydration alone: handleLoadSession over every shape of persisted session.
NextRestore ==
    \E data \in HydratedSessions : HandleLoadSession(data) /\ UNCHANGED ingestRest

InitModal ==
    /\ phase = "idle"
    /\ fixStreams = << >>
    /\ fixIssuedIn = << >>

-----------------------------------------------------------------------------
(* App: the mount effect that loads or creates the first session *)

\* The effect has been set up and init() awaits fetchUserSessions.
InitBoot ==
    /\ initPc = "list"
    /\ initCreate = "none"

\* What init() leaves alone whatever it does.
bootRest == <<recorderType, feedbackAddressed, showComparison, upload,
              uploadSessionId, streams, modalVars, wsVars, coachVars>>

\* setSessionId(id)
SetSessionId(id) ==
    /\ sessionId' = id
    /\ UNCHANGED <<originalVideo, practiceClips, finalVideo, viewVars,
                   isRecorderOpen>>

\* fetchUserSessions throws: control goes to the catch block.
InitListFails ==
    /\ initPc = "list"
    /\ initPc' = "fallback"
    /\ UNCHANGED <<sessionVars, analysisVars, appVars, initCreate, modalVars,
                   wsVars, coachVars>>

\* fetchUserSessions resolves with an empty list: init() goes on to
\* createSession.
InitListEmpty ==
    /\ initPc = "list"
    /\ initPc' = "create"
    /\ UNCHANGED <<sessionVars, analysisVars, appVars, initCreate, modalVars,
                   wsVars, coachVars>>

\* fetchUserSessions resolves with sessions: init() goes on to
\* fetchFullSession for the first of them.
InitListSome ==
    /\ initPc = "list"
    /\ initPc' = "hydrate"
    /\ UNCHANGED <<sessionVars, analysisVars, appVars, initCreate, modalVars,
                   wsVars, coachVars>>

\* fetchFullSession resolves with data: loadFromBackend, then
\* restoreAnalysisFromSession, which calls setAnalysisResult when a scored
\* video or clip is found.
InitHydrated(data) ==
    /\ initPc = "hydrate"
    /\ initPc' = "done"
    /\ LoadFromBackend(data)
    /\ IF RestoredAnalysis(data).present
       THEN /\ isAnalyzing' = FALSE
            /\ currentAnalysis' = RestoredAnalysis(data)
            /\ statusCalls' = NoCalls(RestoredAnalysis(data))
            /\ UNCHANGED <<analysisStatus, thinkingContent,
                           highlightedFeedbackIndex, fixModalVars>>
       ELSE UNCHANGED analysisVars
    /\ UNCHANGED <<createdSessions, initCreate, bootRest>>

\* fetchFullSession throws: control goes to the catch block.
InitHydrateFails ==
    /\ initPc = "hydrate"
    /\ initPc' = "fallback"
    /\ UNCHANGED <<sessionVars, analysisVars, appVars, initCreate, modalVars,
                   wsVars, coachVars>>

\* createSession in the else branch resolves: setSessionId(session_id).
InitCreated ==
    /\ initPc = "create"
    /\ createdSessions < MaxNewSessions
    /\ createdSessions' = createdSessions + 1
    /\ SetSessionId(FreshSessionId)
    /\ initPc' = "done"
    /\ initCreate' = "ok"
    /\ UNCHANGED <<analysisVars, bootRest>>

\* createSession in the else branch throws: control goes to the catch block.
InitCreateFails ==
    /\ initPc = "create"
    /\ initPc' = "fallback"
    /\ initCreate' = "failed"
    /\ UNCHANGED <<sessionVars, analysisVars, appVars, modalVars, wsVars,
                   coachVars>>

\* The catch block with the setSessionId call left out.
InitFallbackKeepsNull ==
    /\ initPc = "fallback"
    /\ createdSessions < MaxNewSessions
    /\ createdSessions' = createdSessions + 1
    /\ initPc' = "done"
    /\ initCreate' = "ok"
    /\ UNCHANGED <<sessionVars, analysisVars, bootRest>>

\* The catch block: createSession again, setSessionId when it resolves.
InitFallback ==
    /\ initPc = "fallback"
    /\ createdSessions < MaxNewSessions
    /\ createdSessions' = createdSessions + 1
    /\ SetSessionId(FreshSessionId)
    /\ initPc' = "done"
    /\ initCreate' = "ok"
    /\ UNCHANGED <<analysisVars, bootRest>>

\* The catch block when its createSession throws too: the error is logged.
InitFallbackFails ==
    /\ initPc = "fallback"
    /\ initPc' = "done"
    /\ initCreate' = "failed"
    /\ UNCHANGED <<sessionVars, analysisVars, appVars, modalVars, wsVars,
                   coachVars>>

NextBoot ==
    \/ InitListFails /\ UNCHANGED <<loads, sse>>
    \/ InitListEmpty /\ UNCHANGED <<loads, sse>>
    \/ InitListSome /\ UNCHANGED <<loads, sse>>
    \/ \E data \in HydratedSessions :
          InitHydrated(data) /\ UNCHANGED <<loads, sse>>
    \/ InitHydrateFails /\ UNCHANGED <<loads, sse>>
    \/ InitCreated /\ UNCHANGED <<loads, sse>>
    \/ InitCreateFails /\ UNCHANGED <<loads, sse>>
    \/ InitFallback /\ UNCHANGED <<loads, sse>>
    \/ InitFallbackFails /\ UNCHANGED <<loads, sse>>

InitStores ==
    /\ InitSession
    /\ InitFeedbackAddressed
    /\ InitAnalysis
    /\ InitApp
    /\ InitModal
    /\ InitWs
    /\ InitCoach
    /\ InitBoot

Init ==
    /\ InitStores
    /\ sse = Response(<< >>, << >>)

\* analyzeVideoStream has its reader, and the service is about to send any of
\* the response bodies.
InitParse ==
    /\ InitStores
    /\ \E recs \in RecordLists, tail \in Tails : sse = Response(recs, tail)

SpecIngest == Init /\ [][NextIngest]_vars

SpecFix == Init /\ [][NextFix]_vars

SpecTool == Init /\ [][NextTool]_vars

SpecWs == Init /\ [][NextWs]_vars

SpecRestore == Init /\ [][NextRestore]_vars

SpecOverlap == Init /\ [][NextOverlap]_vars

SpecChat == Init /\ [][NextChat]_vars

SpecBoot == Init /\ [][NextBoot]_vars

SpecLateFix == Init /\ [][NextLateFix]_vars

SpecBind == Init /\ [][NextBind]_vars

SpecCountdown == Init /\ [][NextCountdown]_vars

SpecReconnect == Init /\ [][NextReconnect]_vars

SpecSwitch == Init /\ [][NextSwitch]_vars

SpecView == Init /\ [][NextView]_vars

SpecParse == InitParse /\ [][NextParse]_vars

-----------------------------------------------------------------------------
(* Properties of the WebSocketManager *)

\* The cap has been used up and nothing is left that could reconnect.
WsExhausted ==
    /\ reconnectAttempts = maxReconnectAttempts
    /\ wsTimers = 0
    /\ \A k \in 1..Len(wsSockets) : ~WsLive(k)

C10_ConnectResetsCounter ==
    [][wsConnectCalls' = wsConnectCalls + 1 => reconnectAttempts' = 0]_vars

\* this.ws is null: no connect() has run since construction or since the last
\* explicit disconnect().
WsDisconnected == wsCurrent = 0

\* C11: after an explicit disconnect(), until the next explicit connect(), no
\* reconnect is scheduled and no new socket is opened: a step taken while the
\* manager is disconnected, other than an explicit connect(), neither raises
\* the number of pending reconnect timers nor creates a socket.
C11_NoReconnectAfterDisconnect ==
    [][(WsDisconnected /\ wsConnectCalls' = wsConnectCalls) =>
           /\ wsTimers' <= wsTimers
           /\ Len(wsSockets') = Len(wsSockets)]_vars

-----------------------------------------------------------------------------
(* Properties of the streaming analysis *)

\* The terminal complete chunk, with a well-formed result, of a request that
\* was started under a session that is no longer the active one.
LateComplete(k) ==
    /\ streams[k].state = "open"
    /\ streams[k].sid # 0
    /\ streams[k].sid # sessionId
    /\ \E p \in Payloads : StreamChunk(k, Chunk("complete_ok", p))

\* C1: a complete event of an analysis started under session S1 that arrives
\* after the active session became S2 changes nothing of S2: not the current
\* analysis result, not a slot, not the comparison flag.
C1_LateCompleteRejected ==
    [][\A k \in 1..Len(streams) :
          LateComplete(k) =>
              UNCHANGED <<currentAnalysis, slotVars, showComparison>>]_vars

-----------------------------------------------------------------------------
(* Properties of the fix evaluation *)

\* The feedback items of the current analysis result.
Items == currentAnalysis.feedback_items

\* C2: when the fix-evaluation request issued for feedback index i delivers
\* complete with is_fixed = true, item i of the current analysis result has
\* status 'fixed' afterwards, every other item is unchanged and the addressed
\* counter grows by exactly 1; with is_fixed = false the counter is unchanged.
C2_FixCompleteFrame ==
    [][\A k \in 1..Len(fixStreams) :
          /\ FixComplete(k, TRUE) =>
                /\ currentAnalysis'.present
                /\ fixStreams[k].idx < Len(currentAnalysis'.feedback_items)
                /\ currentAnalysis'.feedback_items[fixStreams[k].idx + 1].status
                       = "fixed"
                /\ Len(currentAnalysis'.feedback_items) = Len(Items)
                /\ \A j \in 1..Len(Items) :
                       j # fixStreams[k].idx + 1 =>
                           currentAnalysis'.feedback_items[j] = Items[j]
                /\ feedbackAddressed' = feedbackAddressed + 1
          /\ FixComplete(k, FALSE) => feedbackAddressed' = feedbackAddressed]_vars

\* C3: every item's fix_attempts equals the number of updateFeedbackItemStatus
\* calls that named its index since the result became the current one, and it
\* never decreases while the result stays the current one.
C3_AttemptsCountCalls ==
    /\ [](/\ Len(statusCalls) = Len(Items)
          /\ \A i \in 1..Len(Items) : Items[i].fix_attempts = statusCalls[i])
    /\ [][\/ \E data \in FullSessions : HandleLoadSession(data)
          \/ /\ Len(currentAnalysis'.feedback_items) = Len(Items)
             /\ \A i \in 1..Len(Items) :
                    currentAnalysis'.feedback_items[i].fix_attempts
                        >= Items[i].fix_attempts]_vars

\* An item that a fix result and then a skip have named, next to one that no
\* call has named.
C3_Witness ==
    /\ Len(Items) = 2
    /\ Items[2].fix_attempts = 2
    /\ Items[2].status = "skipped"
    /\ Items[2].fix_feedback = "explanation"
    /\ Items[1].fix_attempts = 0

-----------------------------------------------------------------------------
(* Properties of the coach tool-call channel *)

\* What a tool's side effect can touch: the view, the highlight pointer, the
\* fix modal, the countdown, the playback head and the chat transcript.
uiVars == <<viewVars, highlightedFeedbackIndex, fixModalVars, countdown,
           countdownTimers, playbackPos, messages>>

\* The step sends exactly one frame, a tool_result for name with this status.
SendsOne(name, status) == outbox' = Append(outbox, ToolResult(name, status))

\* C5: every tool_call frame that names a tool of the dispatch table, whatever
\* its arguments, makes the handler send exactly one tool_result for it.
C5_ExactlyOneToolResult ==
    [][\A k \in 1..Len(chatSockets) : \A f \in ToolCallFrames :
          (f.name \in ToolNames /\ ChatOnMessage(k, f)) =>
              \E st \in {"ok", "error"} : SendsOne(f.name, st)]_vars

\* C6: a tool_call frame whose name is not in the dispatch table is answered
\* with an error tool_result and has no UI side effect.
C6_UnknownToolAcknowledged ==
    [][\A k \in 1..Len(chatSockets) : \A f \in ToolCallFrames :
          (f.name \notin ToolNames /\ ChatOnMessage(k, f)) =>
              /\ SendsOne(f.name, "error")
              /\ UNCHANGED uiVars]_vars

InvalidArgs(f) ==
    /\ f.hasArgs
    /\ CASE f.name = "seek_video" -> ~ValidTimestamp(OrZero(f.arg))
         [] f.name = "switch_tab" ->
               ~(f.arg.k \in {"absent", "null"}
                 \/ (f.arg.k = "str" /\ f.arg.s \in VideoTypes))
         [] f.name \in {"open_feedback_modal", "show_feedback_card"} ->
               ~(OrZero(f.arg).k = "num" /\ OrZero(f.arg).n >= 0)
         [] OTHER -> FALSE

\* C8: a tool call whose arguments are invalid for its tool is answered with
\* an error tool_result and applies no side effect.
C8_InvalidArgsAcknowledged ==
    [][\A k \in 1..Len(chatSockets) : \A f \in ToolCallFrames :
          (InvalidArgs(f) /\ ChatOnMessage(k, f)) =>
              /\ SendsOne(f.name, "error")
              /\ UNCHANGED <<viewVars, highlightedFeedbackIndex, fixModalVars,
                             countdown, countdownTimers, playbackPos>>]_vars

-----------------------------------------------------------------------------
(* Properties of session hydration *)

Scored(v) == v.present /\ v.score # NoScore

\* The slot whose result the restored view shows by the stated priority:
\* final if scored, else original if scored, else the most recent practice clip.
PrioritySource(data) ==
    LET clips == data.practice_clips
    IN  IF Scored(data.final_video) THEN data.final_video
        ELSE IF Scored(data.original_video) THEN data.original_video
        ELSE IF Len(clips) > 0 THEN clips[Len(clips)] ELSE NoVideoData

\* C12: for every hydrated session the restored analysis view is the final
\* video's result if the final video has a score, otherwise the original
\* video's result if it has a score, otherwise the most recent practice
\* clip's result.
C12_RestorePriority ==
    [][\A data \in HydratedSessions :
          (HandleLoadSession(data) /\ Scored(PrioritySource(data))) =>
              currentAnalysis' =
                  Result(PrioritySource(data).score, PrioritySource(data).n,
                         PrioritySource(data).thought_signature)]_vars

-----------------------------------------------------------------------------
(* Properties of the slots under analysis completion *)

\* The slot of role r holds the payload's score and continuation token.
SlotHolds(video, p) ==
    /\ video.present
    /\ video.score = p.overall_score
    /\ video.thoughtSignature = p.thought_signature

\* C13: on complete of an analysis request with declared role r, the score
\* and continuation token of the payload are written to the slot of role r
\* and to no other slot, and the feedback item list is replaced by the
\* payload's list.
C13_CompleteWritesOwnRole ==
    [][\A k \in 1..Len(streams), p \in Payloads :
          StreamChunk(k, Chunk("complete_ok", p)) =>
              /\ currentAnalysis'.feedback_items = p.feedback_items
              /\ CASE streams[k].type = "original" ->
                          /\ SlotHolds(originalVideo', p)
                          /\ UNCHANGED <<finalVideo, practiceClips>>
                   [] streams[k].type = "final" ->
                          /\ SlotHolds(finalVideo', p)
                          /\ UNCHANGED <<originalVideo, practiceClips>>
                   [] streams[k].type = "practice" ->
                          UNCHANGED <<originalVideo, finalVideo>>]_vars

\* A step of an upload, of a recording or of an analysis request that leaves
\* the active session as it is.
SlotWritingStep ==
    /\ sessionId' = sessionId
    /\ \/ UploadDone
       \/ RecorderUploadComplete
       \/ \E k \in 1..Len(streams), chunk \in Chunks : StreamChunk(k, chunk)

\* C14: once the original or final slot has a score assigned (any value
\* 0..100), its URL, storage reference, score and thought signature are not
\* changed by any later upload, recording or analysis completion in the same
\* session.
C14_ScoredSlotFrozen ==
    [][SlotWritingStep =>
           /\ Scored(originalVideo) => originalVideo' = originalVideo
           /\ Scored(finalVideo) => finalVideo' = finalVideo]_vars

-----------------------------------------------------------------------------
(* Properties of requests that overlap *)

\* Request j is not the latest runStreamingAnalysis call: a later request
\* against the analysis store and the session's slots has started.
Superseded(j) == j < Len(streams)

\* C15: at most one analysis ingestion sequence is in flight against a target
\* at a time: once a second request has started, no event of the first is
\* applied (the first has terminated, is made to wait, or is superseded).
C15_NoEventAfterSuccessor ==
    [][\A j \in 1..Len(streams), chunk \in Chunks :
          (Superseded(j) /\ StreamChunk(j, chunk)) =>
              UNCHANGED <<progressVars, currentAnalysis, slotVars,
                          showComparison>>]_vars

-----------------------------------------------------------------------------
(* Properties of uploads across a session change *)

\* C16: no session holds slots of two identifiers: an upload started while
\* session S1 was active that completes after the active session became S2
\* does not place its video into S2's original, practice or final slot.
C16_UploadStaysInItsSession ==
    [][(UploadDone /\ uploadSessionId # sessionId) => UNCHANGED slotVars]_vars

-----------------------------------------------------------------------------
(* Properties of the failure paths of an analysis request *)

\* Request k fails: an error event, a complete event whose payload does not
\* parse, or a transport failure.
FailureStep(k) ==
    \/ StreamChunk(k, Chunk("error", NoAnalysis))
    \/ StreamChunk(k, Chunk("complete_bad", NoAnalysis))
    \/ StreamThrow(k)

\* C17: after every failure path of an analysis request the analysis store is
\* idle again (isAnalyzing = false) with a visible status message, and the
\* analysis result and the slot data committed before the request started
\* are still present.
C17_FailureRestoresIdle ==
    [][\A k \in 1..Len(streams) :
          FailureStep(k) =>
              /\ isAnalyzing' = FALSE
              /\ analysisStatus' # ""
              /\ UNCHANGED slotVars
              /\ streams[k].hadResult => currentAnalysis'.present]_vars

-----------------------------------------------------------------------------
(* Properties of the error event *)

\* The error event of request k, whether or not the response ends with it.
ErrorEvent(k) ==
    \/ StreamChunk(k, Chunk("error", NoAnalysis))
    \/ StreamErrorStaysOpen(k)

\* C18: an error event terminates its ingestion sequence: it surfaces the
\* message as status, mutates no video slot and no feedback item, and no
\* event arriving later on the same stream is applied.
C18_ErrorTerminates ==
    [][/\ \A k \in 1..Len(streams) :
             ErrorEvent(k) =>
                 /\ analysisStatus' = "Error"
                 /\ UNCHANGED <<slotVars, currentAnalysis>>
       /\ \A k \in 1..Len(streams), chunk \in Chunks :
             (streams[k].state = "errored" /\ StreamChunk(k, chunk)) =>
                 UNCHANGED <<progressVars, currentAnalysis, slotVars,
                             showComparison>>]_vars

-----------------------------------------------------------------------------
(* Properties of the opening of the coach channel *)

\* A channel is open: some ChatClient's socket is connecting or connected.
ChannelOpen ==
    \E k \in 1..Len(chatSockets) : chatSockets[k] \in {"connecting", "open"}

\* C19: the channel is auto-opened exactly on the transition of the analysis
\* result from absent to present while no channel is open: a result update
\* opens one channel when it is such an edge, and opens none otherwise.
C19_AutoOpenOnEdge ==
    [][currentAnalysis' # currentAnalysis =>
           (Len(chatSockets') = Len(chatSockets) + 1
               <=> /\ ~currentAnalysis.present
                   /\ currentAnalysis'.present
                   /\ ~ChannelOpen)]_vars

\* C20: when an analysis result is available at the time the channel is
\* opened, exactly one context frame carrying it is sent: never a second one,
\* and it has gone out by the time the channel is connected.
C20_ContextSentOnce ==
    /\ contextLog.sent <= 1
    /\ (coachConnected /\ clientRef # 0 /\ contextLog.due) => contextLog.sent = 1

-----------------------------------------------------------------------------
(* Properties of the channel across session changes *)

\* The current ChatClient's socket is connecting or connected.
CurrentChannelOpen ==
    /\ clientRef # 0
    /\ chatSockets[clientRef] \in {"connecting", "open"}

\* C21: whenever the channel is open, the session id it was opened with
\* equals the active session id: switching to another session leaves no
\* channel open that is bound to the previous one.
C21_ChannelBoundToActiveSession ==
    CurrentChannelOpen => clientSessionId = sessionId

-----------------------------------------------------------------------------
(* Properties of the chat transcript *)

TextFrame == Frame("text", "", FALSE, ArgAbsent)

\* The transcript after a text frame was added to its last message.
Concatenated ==
    /\ Len(messages) > 0
    /\ messages[Len(messages)].role = "coach"
    /\ messages' = [messages EXCEPT ![Len(messages)].n = @ + 1]

\* The transcript after a text frame started a new coach message.
NewCoachMessage ==
    messages' = Append(messages, [role |-> "coach", text |-> "text", n |-> 1])

\* C22: consecutive inbound text frames are concatenated into one displayed
\* coach message, and a text frame that arrives after a non-text inbound
\* frame (tool_call, error, connected) or after a turn boundary (a message of
\* the user) starts a new coach message.
C22_TextFramesGrouped ==
    [][\A k \in 1..Len(chatSockets) :
          ChatOnMessage(k, TextFrame) =>
              /\ lastFrame = "text" => Concatenated
              /\ lastFrame \in {"tool_call", "error", "connected", "user"}
                     => NewCoachMessage]_vars

-----------------------------------------------------------------------------
(* Properties of the initial load *)

\* init() has run to its end.
InitDone == initPc = "done"

\* The session store and the analysis store hold nothing of any session.
EmptySession ==
    /\ ~originalVideo.present
    /\ practiceClips = << >>
    /\ ~finalVideo.present
    /\ ~currentAnalysis.present

\* C23: when the initial load has finished, a session id is set unless the
\* last createSession call of the load failed; and when the load ended by
\* creating a session (empty list, or listing or hydrating failed), the id
\* is the newly created one and the session is empty.
C23_InitEndsWithSession ==
    InitDone =>
        /\ initCreate # "failed" => sessionId # 0
        /\ initCreate = "ok" =>
               sessionId = FreshSessionId - 1 /\ EmptySession

\* The load ended by creating a session.
C23_Witness ==
    /\ InitDone
    /\ initCreate = "ok"
    /\ sessionId = FreshSessionId - 1

-----------------------------------------------------------------------------
(* Properties of updateFeedbackItemStatus *)

\* What a call updateFeedbackItemStatus(index, status, fixFeedback) made in
\* this step has to leave behind.
StatusUpdated(index, status, fixFeedback) ==
    IF ~currentAnalysis.present
           \/ index < 0 \/ index > Len(currentAnalysis.feedback_items) - 1
    THEN currentAnalysis' = currentAnalysis
    ELSE /\ currentAnalysis'.present
         /\ currentAnalysis'.overall_score = currentAnalysis.overall_score
         /\ Len(currentAnalysis'.feedback_items) = Len(Items)
         /\ \A j \in 1..Len(Items) :
                LET old == Items[j]
                    new == currentAnalysis'.feedback_items[j]
                IN  IF j = index + 1
                    THEN /\ new.status = status
                         /\ new.fix_feedback = IF fixFeedback = "none"
                                               THEN old.fix_feedback
                                               ELSE fixFeedback
                         /\ new.fix_attempts = old.fix_attempts + 1
                    ELSE new = old

\* C24: a call of updateFeedbackItemStatus with no current analysis or with an
\* index outside 0..len-1 changes nothing of the analysis; a call with an
\* index in bounds sets that item's status, overwrites its explanation when
\* one is given and keeps it otherwise, adds one to that item's attempt
\* counter and leaves every other item as it was.  The calls are those of the
\* fix modal: a fix result (explanation given) and a skip (none given).
C24_StatusUpdateInBoundsOnly ==
    [][/\ \A k \in 1..Len(fixStreams) :
             /\ FixComplete(k, TRUE) =>
                    StatusUpdated(fixStreams[k].idx, "fixed", "explanation")
             /\ FixComplete(k, FALSE) =>
                    StatusUpdated(fixStreams[k].idx, "unfixed", "explanation")
       /\ HandleSkip => StatusUpdated(fixModalFeedbackIndex.v, "skipped", "none")]_vars

\* A fix result for index 1 has been applied while the current analysis has
\* one item only (index 0), and that item is untouched.
C24_Witness ==
    /\ fixStreams = <<[idx |-> 1, state |-> "done"]>>
    /\ fixResult # "null"
    /\ Len(Items) = 1
    /\ Items[1].fix_attempts = 0
    /\ Items[1].status = Item(1).status

-----------------------------------------------------------------------------
(* Properties of the thinking transcript *)

\* C25: the thinking transcript holds text of the most recently started
\* analysis request only: it is emptied when a request starts and no text
\* delivered by an earlier request's stream is ever in it.
C25_TranscriptOfLatestRequest ==
    \A j \in 1..Len(thinkingContent) : thinkingContent[j] = Len(streams)

-----------------------------------------------------------------------------
(* Properties of disconnect() on the coach channel *)

\* A frame is handed to a socket in this step.
FrameSent == Len(outbox') > Len(outbox)

\* C26: disconnect() takes effect in the step that calls it: afterwards the
\* client holds no socket that is connecting or open and the panel reports
\* not connected; and while no client is held (from a disconnect until the
\* next connect) no sendText, sendContext or sendToolResult hands a frame to
\* a socket: a frame leaves only through the current client's OPEN socket.
C26_DisconnectIsSynchronous ==
    [][/\ CoachDisconnect =>
             /\ clientRef' = 0
             /\ ~coachConnected'
             /\ chatSockets'[clientRef] \notin {"connecting", "open"}
       /\ FrameSent => clientRef # 0 /\ chatSockets[clientRef] = "open"]_vars

\* The channel was open and in use (a frame it sent is still on its way) and
\* has been disconnected: no client is held and the socket is closing.
C26_Witness ==
    /\ clientRef = 0
    /\ ~coachConnected
    /\ Len(chatSockets) = 1
    /\ chatSockets[1] = "closing"
    /\ Len(outbox) > 0

-----------------------------------------------------------------------------
(* Properties of frames the coach channel cannot read *)

\* A frame that is not JSON, and a JSON frame of a type handleMessage has no
\* case for.
BadFrames == {Frame(t, "", FALSE, ArgAbsent) : t \in {"garbage", "unknown"}}

\* The frames that always leave a line in the chat when they are dispatched.
PlainFrames ==
    {Frame(t, "", FALSE, ArgAbsent) : t \in {"connected", "text", "error"}}

\* C27: an inbound frame that is not valid JSON or has an unknown type changes
\* no chat, analysis or session state and leaves the socket and the client as
\* they are; the frame that arrives right after it is decoded and dispatched
\* (a connected, text or error frame leaves its line in the chat, connected
\* marks the panel connected).
C27_BadFrameIgnored ==
    [][\A k \in 1..Len(chatSockets) :
          /\ \A f \in BadFrames :
                ChatOnMessage(k, f) =>
                    UNCHANGED <<sessionVars, analysisVars, appVars, modalVars,
                                chatSockets, clientRef, coachConnected,
                                messages, countdown, countdownTimers, outbox,
                                playbackPos>>
          /\ \A f \in PlainFrames :
                (lastFrame \in {"garbage", "unknown"} /\ ChatOnMessage(k, f)) =>
                    /\ messages' # messages
                    /\ f.type = "connected" => coachConnected']_vars

\* A frame the client could not read was the latest to arrive on a channel
\* that is connected and has shown a frame before.
C27_Witness ==
    /\ lastFrame \in {"garbage", "unknown"}
    /\ coachConnected
    /\ framesReceived >= 2
    /\ Len(messages) = 1

-----------------------------------------------------------------------------
(* Properties of the comparison view *)

\* Request k handles a complete event whose payload is a result.
CompletesWithResult(k) ==
    \E chunk \in Chunks : chunk.kind = "complete_ok" /\ StreamChunk(k, chunk)

\* C28: the comparison view is unlocked when, and only when, an analysis
\* request with role final completes with a payload that parses to a result:
\* such a completion leaves the view unlocked, a completion with role original
\* or practice never unlocks it, nothing else unlocks it, and creating or
\* loading a session locks it.
C28_ComparisonUnlockedByFinal ==
    [][/\ \A k \in 1..Len(streams) :
             CompletesWithResult(k) =>
                 IF streams[k].type = "final" THEN ComparisonShown'
                 ELSE ComparisonShown' => ComparisonShown
       /\ (ComparisonShown' /\ ~ComparisonShown) =>
             \E k \in 1..Len(streams) :
                 streams[k].type = "final" /\ CompletesWithResult(k)
       /\ (HandleNewSession \/ \E data \in FullSessions : HandleLoadSession(data))
             => ~ComparisonShown']_vars

-----------------------------------------------------------------------------
(* Properties of late fix results *)

\* C29: the result of a fix evaluation is applied to its own target only: a
\* complete event of a request issued under a session other than the active
\* one changes no item of the current analysis, and a complete event of a
\* request issued for item i while the fix modal is open for another item j
\* does not change the result the modal shows.
C29_FixResultHitsOwnTarget ==
    [][\A k \in 1..Len(fixStreams), isFixed \in BOOLEAN :
          FixComplete(k, isFixed) =>
              /\ fixIssuedIn[k] # sessionId =>
                     currentAnalysis' = currentAnalysis
              /\ (/\ fixModalOpen
                  /\ fixModalFeedbackIndex.k = "num"
                  /\ fixModalFeedbackIndex.v # fixStreams[k].idx) =>
                     fixResult' = fixResult]_vars

-----------------------------------------------------------------------------
(* Properties of the addressed counter *)

\* The feedback items of the current analysis whose status is 'fixed'.
FixedItems == {i \in 1..Len(Items) : Items[i].status = "fixed"}

\* C30: the addressed counter never exceeds the number of feedback items of
\* the current analysis whose status is 'fixed'.
C30_AddressedWithinFixed == feedbackAddressed <= Cardinality(FixedItems)

-----------------------------------------------------------------------------
(* Properties of the countdown before a recording *)

\* C31: a recording tool call opens the capture UI only after its own 3-2-1
\* countdown has run out: the interval whose callback calls onComplete has
\* ticked three times, also when a second call arrived while the countdown
\* of an earlier one was running.
C31_OpensAfterOwnCountdown ==
    countdownLog.opened \in {0, CountdownSeconds}

-----------------------------------------------------------------------------
(* Properties of show_original *)

\* The stage shows the player on the original slot's video.
OriginalDisplayed ==
    /\ ~isRecorderOpen
    /\ activeVideoType = "original"
    /\ currentVideoUrl = originalVideo.url

\* C32: after a show_original tool call the stage shows the original slot's
\* video, whatever it showed before the call: another tab, a practice clip,
\* or the recorder.
C32_ShowOriginalDisplaysOriginal ==
    [][\A k \in 1..Len(chatSockets) : \A h \in BOOLEAN :
          ChatOnMessage(k, Frame("tool_call", "show_original", h, ArgAbsent))
              => OriginalDisplayed']_vars

-----------------------------------------------------------------------------
(* Properties of reconnection *)

\* The remote side has closed the channel of the panel's client.
RemoteClosed ==
    /\ clientRef # 0
    /\ chatSockets[clientRef] = "closed"

\* C33: after the remote side has closed the coach channel, a press of the
\* Connect button opens a new channel, held by a new client of the panel.
C33_ConnectAfterRemoteClose ==
    [][(RemoteClosed /\ connectLog'.clicks # connectLog.clicks) =>
          /\ Len(chatSockets') = Len(chatSockets) + 1
          /\ clientRef' = Len(chatSockets')]_vars

\* The panel's flag agrees with its client: a client is held, it has had its
\* connected frame, and its socket has not closed.
PanelMatchesClient ==
    coachConnected <=>
        /\ clientRef # 0
        /\ connectLog.live[clientRef]
        /\ chatSockets[clientRef] # "closed"

\* C34: isConnected is true exactly when the panel's present client has had a
\* connected frame and its socket has not closed; a close or error event of a
\* client the panel has let go of, arriving while a newer client is connected,
\* leaves the panel online.
C34_FlagFollowsCurrentClient ==
    [][/\ PanelMatchesClient'
       /\ \A k \in 1..Len(chatSockets) :
             (/\ k # clientRef
              /\ coachConnected
              /\ ChatWsClose(k) \/ ChatWsError(k)) => coachConnected']_vars

-----------------------------------------------------------------------------
(* Properties of session switching *)

\* C35: when the user has picked one session and then another before the
\* first fetch resolved, then once the fetches have resolved the active
\* session is the one picked last, in whichever order they resolved.
C35_LastSelectedSessionWins ==
    (loads.pending = {} /\ loads.ok) => sessionId = loads.selected

-----------------------------------------------------------------------------
(* Properties of the manager's sockets and timers *)

\* The sockets of the manager that are connecting or open.
WsOpenSockets ==
    {k \in 1..Len(wsSockets) : wsSockets[k] \in {"connecting", "open"}}

\* C36: the manager never has more than one socket connecting or open, nor
\* more than one reconnect timer pending, whatever connect() and disconnect()
\* calls arrive while a socket is open or a timer is pending.
C36_OneSocketOneTimer ==
    /\ Cardinality(WsOpenSockets) <= 1
    /\ wsTimers <= 1

-----------------------------------------------------------------------------
(* Properties of the highlighted feedback card *)

\* C37: highlightedFeedbackIndex is null or the index of an item of the
\* current analysis result, after any tool calls and session loads.
C37_HighlightInRange ==
    \/ highlightedFeedbackIndex = JsNull
    \/ \E i \in FixIndices :
          InBounds(i) /\ highlightedFeedbackIndex = JsNum(i)

-----------------------------------------------------------------------------
(* Properties of the stored view *)

\* The URL of the slot activeVideoType names, 0 when that slot is empty: for
\* 'practice' the selected clip, or the latest one when none is selected.
ActiveSlotUrl ==
    CASE activeVideoType = "original" -> originalVideo.url
      [] activeVideoType = "final" -> finalVideo.url
      [] activeVideoType = "practice" ->
            IF selectedPracticeClipId \in 1..Len(practiceClips)
            THEN practiceClips[selectedPracticeClipId]
            ELSE IF Len(practiceClips) > 0
            THEN practiceClips[Len(practiceClips)]
            ELSE 0

\* C38: in every reachable state of the session store currentVideoUrl is the
\* URL of the slot activeVideoType names, and null exactly when that slot is
\* empty.
C38_ViewMatchesSlot ==
    /\ activeVideoType \in VideoTypes
    /\ currentVideoUrl = ActiveSlotUrl

\* An older practice clip is on display: a clip was recorded after it, and the
\* user picked the older one from the clip list.
C38_Witness ==
    /\ activeVideoType = "practice"
    /\ selectedPracticeClipId # 0
    /\ selectedPracticeClipId < Len(practiceClips)
    /\ currentVideoUrl = practiceClips[selectedPracticeClipId]
    /\ currentVideoUrl # practiceClips[Len(practiceClips)]

-----------------------------------------------------------------------------
(* Properties of the event stream reader *)

\* ys is the beginning of zs.
IsPrefix(ys, zs) == Len(ys) <= Len(zs) /\ ys = SubSeq(zs, 1, Len(ys))

\* C39: however the response is cut into chunks, analyzeVideoStream yields
\* the payloads of the blank-line-terminated 'data: ' records that are JSON,
\* each once and in the order of the stream, passing over the records that
\* are not JSON: what it has yielded is always the beginning of that list and
\* is the whole of it when the stream has ended.
C39_SameEventsForEverySplit ==
    /\ IsPrefix(sse.yielded, Yields(sse.records))
    /\ sse.done => sse.yielded = Yields(sse.records)

\* A response has ended in which a record that is not JSON came before an
\* event, a chunk ended between the two newlines of a blank line, and the
\* event was yielded.
C39_Witness ==
    /\ sse.done
    /\ sse.midBlank
    /\ Len(sse.records) = 2
    /\ sse.records[1] = DataPrefix \o <<"x">>
    /\ sse.yielded = <<(<<"1">>)>>

====
